---- MODULE Spec2Model ----
(***************************************************************************)
(* Agent orchestration core of skill-agent (fastapi_agent):                *)
(*   - Agent.run, the step loop            (core/agent.py)                 *)
(*   - TokenManager.maybe_summarize_messages (core/token_manager.py)       *)
(*   - SpawnAgentTool                      (tools/spawn_agent_tool.py)     *)
(*   - Team.run / Team.run_with_dependencies (core/team.py)                *)
(* Each component has its own variables and its own specification; a       *)
(* specification leaves the other components' variables untouched.         *)
(***************************************************************************)
EXTENDS Integers, Sequences, FiniteSets, TLC

(***************************************************************************)
(* Bounds of the model.                                                    *)
(***************************************************************************)
MaxSteps == 2          \* max_steps of the modelled agent ranges over 0..MaxSteps
MaxTurns == 2          \* add_user_message calls on one Agent object
MaxHistoryRuns == 2    \* session runs injected as user/assistant pairs
TokenLimit == 30       \* token_limit of the modelled agent (scaled down)
MaxMessages == 8       \* the LLM asks for no more tools once the history is this long
ToolOutputLimit == 2    \* Agent(tool_output_limit=2)

(***************************************************************************)
(* Program constants.                                                      *)
(***************************************************************************)
SummarizeAfterRounds == 2    \* TokenManager(summarize_after_rounds=2)
PerMessageOverhead == 4      \* estimate_tokens: total_tokens += 4
DefaultMaxSteps == 15        \* SpawnAgentTool(default_max_steps=15)

VARIABLES
    \* ---- Agent (core/agent.py) ----
    messages,        \* Agent.messages
    max_steps,       \* Agent.max_steps
    tool_list,       \* the tools argument of Agent.__init__
    tools,           \* Agent.tools: name -> tool
    tool_result,     \* the ToolResult of the last tool execution, as logged
    enable_summarization, \* TokenManager.enable_summarization
    core_memory,     \* TokenManager.core_memory
    pc,              \* position of Agent.run: "new","ready","loop","llm","tools","done"
    step,            \* local step of Agent.run
    pending,         \* response.tool_calls of the current step
    tcIdx,           \* index of the tool call the for-loop is at
    reason,          \* reason passed to log_completion
    result,          \* text returned by Agent.run
    llmCalls,        \* main-loop llm.generate calls of the current run
    toolExecs,       \* iterations of the tool loop of the current run
    sideCalls,       \* llm.generate calls made by _extract_core_memory
    allOneCall,      \* every LLM response of the current run carried exactly one tool call
    turns            \* add_user_message calls so far

    ,
    \* ---- one call of TokenManager.maybe_summarize_messages ----
    sIn,             \* the list passed in
    sCore,           \* self.core_memory before the call, then after the first call
    sEnabled,        \* self.enable_summarization
    sOut,            \* the list returned
    sCalled,         \* the side LLM call was made
    sOutcome,        \* how the side LLM call ended ("-" when it was not made)
    sDone,           \* the call has returned
    sAgain           \* a second call, on the list the first one returned: its result
    ,
    \* ---- SpawnAgentTool (tools/spawn_agent_tool.py) ----
    toolDicts,       \* the parent_tools dictionaries, by name
    agents,          \* the chain of running agents, root first, innermost last
    spawnResult,     \* ToolResult of the last SpawnAgentTool.execute
    spawnExecs,      \* SpawnAgentTool.execute calls so far
    childrenCreated, \* sub-agents constructed so far
    spawnLlmCalls    \* llm.generate calls made by the agents of the chain
    ,
    \* ---- Team.run (core/team.py) ----
    sessions,        \* session_manager: session id -> sequence of run records
    current_run_id,  \* Team._current_run_id (0 is None)
    member_runs,     \* Team.member_runs
    teamCalls,       \* the Team.run calls on the instance, by call slot
    delegate_to_all  \* config.delegate_to_all of the Team instance
    ,
    \* ---- Team.run_with_dependencies (core/team.py) ----
    tasks,           \* the task list: id -> depends_on, status, result, prompt
    completed_results, \* the results map of the call: task id -> result
    depSession,      \* the session_id argument ("" is None)
    depPc,           \* "new", "layer", "returned", "raised", or "idle"
    layers,          \* the layers _resolve_dependencies returned
    layer_idx,       \* the layer being executed (from 1)
    depResponse      \* the DependencyRunResponse returned
    ,
    \* ---- AgentSessionManager with a storage file (core/session.py) ----
    agentSessions,   \* self.sessions: session id -> runs (run ids)
    storage_file,    \* the storage file: complete with some content, or partial
    temp_file,       \* the .tmp file: "absent", "partial" or "complete"
    callers,         \* the calls of the manager's operations
    lockOrder,       \* callers in the order they acquired self._lock
    crashed          \* the process died in the middle of a write
    ,
    \* ---- run_agent and run_agent_stream (api/v1/endpoints/agent.py) ----
    endpointSessions, \* the session manager's sessions: session id -> run records
    request,         \* the request being served and the position of its handler
    served           \* requests received so far; the next one's run_id
    ,
    \* ---- one AgentSession (core/session.py) ----
    history_runs,    \* AgentSession.runs, each a task and a response
    history_args,    \* the arguments of get_history_messages
    history_messages,\* the list get_history_messages returned
    history_done,    \* get_history_messages has returned for the present runs
    updated_at       \* AgentSession.updated_at, a reading of time.time()
    ,
    \* ---- AgentLogger and the run log storage (core/agent_logger.py) ----
    loggers,         \* run_id (0 is None) and log_index of each AgentLogger
    save_tasks,      \* the _save_event_async tasks created and not yet run, oldest first
    run_events,      \* the storage, the events saved under each run_id in the order saved
    log_clock        \* the second the last start_new_run read from the clock
    ,
    \* ---- Agent.run and Agent.run_stream on the same LLM outputs (core/agent.py) ----
    plain_run,       \* an Agent taken through run: messages, position, locals
    stream_run,      \* an Agent of the same construction taken through run_stream
    llm_outputs,     \* what the LLM outputs at the first, second, ... call of a run
    tool_outcomes,   \* how the first, second, ... tool execution of a run ends
    run_max_steps    \* max_steps of both agents
    ,
    \* ---- AgentTeam.run (core/agent_team.py) ----
    agent_team       \* one AgentTeam and its run: strategy, max_steps, members, the leader's plan, step, members run, position, reported steps

agentVars == <<messages, max_steps, tool_list, tools, tool_result, enable_summarization, core_memory, pc, step,
               pending, tcIdx, reason, result, llmCalls, toolExecs, sideCalls,
               allOneCall, turns>>

sumVars == <<sIn, sCore, sEnabled, sOut, sCalled, sOutcome, sDone, sAgain>>

spawnVars == <<toolDicts, agents, spawnResult, spawnExecs, childrenCreated, spawnLlmCalls>>

teamVars == <<sessions, current_run_id, member_runs, teamCalls, delegate_to_all>>

depVars == <<tasks, completed_results, depSession, depPc, layers, layer_idx, depResponse>>

storeVars == <<agentSessions, storage_file, temp_file, callers, lockOrder, crashed>>
endpointVars == <<endpointSessions, request, served>>

historyVars == <<history_runs, history_args, history_messages, history_done, updated_at>>

loggerVars == <<loggers, save_tasks, run_events, log_clock>>

streamVars == <<plain_run, stream_run, llm_outputs, tool_outcomes, run_max_steps>>

agentTeamVars == <<agent_team>>

vars == <<agentVars, sumVars, spawnVars, teamVars, depVars, storeVars, endpointVars, historyVars, loggerVars, streamVars, agentTeamVars>>

\* What the actions of one component leave alone.
notAgent == <<sumVars, spawnVars, teamVars, depVars, storeVars, endpointVars, historyVars, loggerVars, streamVars, agentTeamVars>>
notSummarize == <<agentVars, spawnVars, teamVars, depVars, storeVars, endpointVars, historyVars, loggerVars, streamVars, agentTeamVars>>
notSpawn == <<agentVars, sumVars, teamVars, depVars, storeVars, endpointVars, historyVars, loggerVars, streamVars, agentTeamVars>>
notTeam == <<agentVars, sumVars, spawnVars, depVars, storeVars, endpointVars, historyVars, loggerVars, streamVars, agentTeamVars>>
notDeps == <<agentVars, sumVars, spawnVars, teamCalls, delegate_to_all, storeVars, endpointVars, historyVars, loggerVars, streamVars, agentTeamVars>>
notStore == <<agentVars, sumVars, spawnVars, teamVars, depVars, endpointVars, historyVars, loggerVars, streamVars, agentTeamVars>>
notEndpoint == <<agentVars, sumVars, spawnVars, teamVars, depVars, storeVars, historyVars, loggerVars, streamVars, agentTeamVars>>
notHistory == <<agentVars, sumVars, spawnVars, teamVars, depVars, storeVars, endpointVars, loggerVars, streamVars, agentTeamVars>>
notLogger == <<agentVars, sumVars, spawnVars, teamVars, depVars, storeVars, endpointVars, historyVars, streamVars, agentTeamVars>>
notStream == <<agentVars, sumVars, spawnVars, teamVars, depVars, storeVars, endpointVars, historyVars, loggerVars, agentTeamVars>>
notAgentTeam == <<agentVars, sumVars, spawnVars, teamVars, depVars, storeVars, endpointVars, historyVars, loggerVars, streamVars>>

(***************************************************************************)
(* Messages (schemas/message.py).  content is a sequence of text pieces,   *)
(* so that f-string concatenation is \o.  tool_call_id "" stands for None. *)
(***************************************************************************)
Message(role, content) ==
    [role |-> role, content |-> content, tool_calls |-> <<>>, tool_call_id |-> "", name |-> ""]

AssistantMessage(content, calls) ==
    [role |-> "assistant", content |-> content, tool_calls |-> calls, tool_call_id |-> "", name |-> ""]

ToolMessageNoId(content, call) ==
    [role |-> "tool", content |-> content, tool_calls |-> <<>>, tool_call_id |-> "", name |-> call.name]

\* agent.py 336-341: Message(role="tool", content=..., tool_call_id=tool_call_id, name=function_name)
ToolMessage(content, call) ==
    [role |-> "tool", content |-> content, tool_calls |-> <<>>, tool_call_id |-> call.id, name |-> call.name]

ToolCall(id, name) == [name |-> name, id |-> id]

RegisteredTools == DOMAIN tools            \* Agent.tools keys
ToolNames == RegisteredTools \cup {"ghost"}  \* names the LLM may emit

\* The tool-call lists an LLM response may carry: one call, a call of an
\* unregistered tool, two calls, two calls sharing one id.
ResponseCalls ==
    { <<ToolCall("c1", "echo")>>,
      <<ToolCall("c2", "ghost")>>,
      <<ToolCall("c1", "echo"), ToolCall("c2", "ghost")>>,
      <<ToolCall("c2", "ghost"), ToolCall("c2", "echo")>> }

UserTexts == <<"task1", "task2", "task3", "task4">>

(***************************************************************************)
(* TokenManager.estimate_tokens: tokens of content and of str(tool_calls), *)
(* plus 4 per message.  The tokenizer is abstracted to a length per piece. *)
(***************************************************************************)
PieceTokens(p) == 1

RECURSIVE ContentTokens(_)
ContentTokens(c) == IF c = <<>> THEN 0 ELSE PieceTokens(Head(c)) + ContentTokens(Tail(c))

MessageTokens(m) ==
    ContentTokens(m.content)
    + (IF m.tool_calls # <<>> THEN 2 * Len(m.tool_calls) ELSE 0)
    + PerMessageOverhead

RECURSIVE estimate_tokens(_)
estimate_tokens(msgs) ==
    IF msgs = <<>> THEN 0 ELSE MessageTokens(Head(msgs)) + estimate_tokens(Tail(msgs))

(***************************************************************************)
(* TokenManager.maybe_summarize_messages (token_manager.py 122-203).       *)
(* Python indices are 0-based, sequences here 1-based: Python's            *)
(* "i > 0" is "i > 1", messages[0] is msgs[1].                             *)
(***************************************************************************)
\* user_indices = [i for i, msg in enumerate(messages) if msg.role == "user" and i > 0]
UserIndices(msgs) == {i \in 1..Len(msgs) : msgs[i].role = "user" /\ i > 1}

NumRounds(msgs) == Cardinality(UserIndices(msgs))

NeedCompressAtThreshold(msgs) ==
    NumRounds(msgs) >= SummarizeAfterRounds \/ estimate_tokens(msgs) > TokenLimit

\* need_compress = num_rounds > summarize_after_rounds or estimated_tokens > token_limit
NeedCompress(msgs) ==
    NumRounds(msgs) > SummarizeAfterRounds \/ estimate_tokens(msgs) > TokenLimit

CompressEndIdxOffByOne(msgs) ==
    (CHOOSE i \in UserIndices(msgs) : \A j \in UserIndices(msgs) : j <= i) + 1

\* compress_end_idx = user_indices[-1]
CompressEndIdx(msgs) ==
    CHOOSE i \in UserIndices(msgs) : \A j \in UserIndices(msgs) : j <= i

\* messages_to_compress = messages[1:compress_end_idx]
MessagesToCompress(msgs) == SubSeq(msgs, 2, CompressEndIdx(msgs) - 1)

\* The three early returns are not taken.
Compresses(enabled, msgs) ==
    /\ enabled
    /\ NeedCompress(msgs)
    /\ NumRounds(msgs) >= 2
    /\ MessagesToCompress(msgs) # <<>>

\* f"[{num_rounds} 轮对话历史，提取失败]"
SentinelText(n) ==
    <<"[", ToString(n), " rounds of conversation history, extraction failed]">>

ExtractOutcomes == {"summary", "empty", "raise"}

extract_core_memorySilent(outcome, num_rounds) ==
    CASE outcome = "summary" -> <<"summary">>
      [] outcome = "empty" -> <<>>
      [] outcome = "raise" -> <<>>

\* _extract_core_memory (205-266): response.content, "" for empty content,
\* the sentinel when llm.generate raises.
extract_core_memory(outcome, num_rounds) ==
    CASE outcome = "summary" -> <<"summary">>
      [] outcome = "empty" -> <<>>
      [] outcome = "raise" -> SentinelText(num_rounds)

\* Message(role="user", content=f"[对话历史核心记忆]\n{self.core_memory}\n\n请基于以上历史上下文继续对话。")
MemoryMessage(core) ==
    Message("user", <<"[conversation history core memory]">> \o core \o <<"continue">>)

AckMessageAsUser == Message("user", <<"ack">>)

\* Message(role="assistant", content="好的，我已了解之前的对话内容，请继续。")
AckMessage == Message("assistant", <<"ack">>)

\* Result of one call: the returned list, the new self.core_memory and
\* whether the side LLM call was made.
maybe_summarize_messages(enabled, msgs, core, outcome) ==
    IF ~Compresses(enabled, msgs)
    THEN [messages |-> msgs, core_memory |-> core, called |-> FALSE]
    ELSE LET rounds_to_compress == NumRounds(msgs) - 1
             extracted == extract_core_memory(outcome, rounds_to_compress)
             newCore == IF extracted # <<>> THEN extracted ELSE core
             injected == IF newCore # <<>>
                         THEN <<MemoryMessage(newCore), AckMessage>>
                         ELSE <<>>
         IN [messages |-> <<msgs[1]>> \o injected
                          \o SubSeq(msgs, CompressEndIdx(msgs), Len(msgs)),
             core_memory |-> newCore,
             called |-> TRUE]

(***************************************************************************)
(* Agent (core/agent.py).                                                  *)
(***************************************************************************)
SystemMessage == Message("system", <<"system-prompt">>)

NoResult == [n |-> 0, text |-> ""]

\* while step < self.max_steps
LoopContinuesLE(s, m) == s <= m

LoopContinues(s, m) == s < m

\* Outcomes of Tool.execute for a registered tool: a successful result whose
\* content is short, exactly tool_output_limit long or longer, a failed
\* result, an exception.
ToolOutcomes == {"ok", "ok_at_limit", "ok_long", "failed", "raised"}

\* The ToolResult of one dispatch (agent.py 291-308); content and error are
\* sequences of characters and of text pieces.
ToolResult(call, outcome) ==
    IF call.name \notin RegisteredTools
    THEN [success |-> FALSE, content |-> <<>>, error |-> <<"Unknown tool: ", call.name>>]
    ELSE CASE outcome = "ok" ->
                [success |-> TRUE, content |-> <<"o">>, error |-> <<>>]
           [] outcome = "ok_at_limit" ->
                [success |-> TRUE, content |-> [i \in 1..ToolOutputLimit |-> "o"],
                 error |-> <<>>]
           [] outcome = "ok_long" ->
                [success |-> TRUE, content |-> [i \in 1..(ToolOutputLimit + 2) |-> "o"],
                 error |-> <<>>]
           [] outcome = "failed" ->
                [success |-> FALSE, content |-> <<>>, error |-> <<"tool error">>]
           [] outcome = "raised" ->
                [success |-> FALSE, content |-> <<>>, error |-> <<"Tool execution failed: ">>]

truncate_tool_outputNoSuffix(content) ==
    IF Len(content) <= ToolOutputLimit
    THEN content
    ELSE SubSeq(content, 1, ToolOutputLimit)

\* Agent._truncate_tool_output (144-157)
truncate_tool_output(content) ==
    IF Len(content) <= ToolOutputLimit
    THEN content
    ELSE SubSeq(content, 1, ToolOutputLimit)
         \o <<"\n\n[... output truncated, ", ToString(Len(content) - ToolOutputLimit),
              " more characters ...]">>

ToolContentBare(call, outcome) ==
    LET r == ToolResult(call, outcome)
    IN IF r.success THEN truncate_tool_output(r.content) ELSE r.error

\* tool_content (agent.py 332-334): the truncated content of a successful
\* result, f"Error: {result.error}" otherwise.
ToolContent(call, outcome) ==
    LET r == ToolResult(call, outcome)
    IN IF r.success THEN truncate_tool_output(r.content) ELSE <<"Error: ">> \o r.error

InitAgent ==
    /\ messages = <<SystemMessage>>
    /\ max_steps \in 0..MaxSteps
    /\ tool_list \in {<<[name |-> "echo", id |-> 1]>>,
                      <<[name |-> "echo", id |-> 1], [name |-> "echo", id |-> 2]>>}
    \* self.tools = {tool.name: tool for tool in (tools or [])} (agent.py 57):
    \* the last tool of a name is the one kept
    /\ tools = [n \in {tool_list[i].name : i \in DOMAIN tool_list} |->
                   tool_list[CHOOSE i \in DOMAIN tool_list :
                                 /\ tool_list[i].name = n
                                 /\ \A j \in DOMAIN tool_list :
                                       tool_list[j].name = n => j <= i]]
    /\ tool_result = [success |-> FALSE, content |-> <<>>, error |-> <<>>]
    /\ enable_summarization \in BOOLEAN
    /\ core_memory = <<>>
    /\ pc = "new"
    /\ step = 0
    /\ pending = <<>>
    /\ tcIdx = 0
    /\ reason = ""
    /\ result = NoResult
    /\ llmCalls = 0
    /\ toolExecs = 0
    /\ sideCalls = 0
    /\ allOneCall = TRUE
    /\ turns = 0

RECURSIVE HistoryPairs(_)
HistoryPairs(k) ==
    IF k = 0 THEN <<>>
    ELSE HistoryPairs(k - 1) \o <<Message("user", <<"old-task">>), Message("assistant", <<"old-answer">>)>>

\* run_agent (api/v1/endpoints/agent.py 104-114): the session's last runs are
\* appended to agent.messages before the request's message.
InjectHistory(k) ==
    /\ pc = "new"
    /\ messages' = messages \o HistoryPairs(k)
    /\ pc' = "loaded"
    /\ UNCHANGED <<max_steps, tool_list, tools, tool_result, enable_summarization, core_memory, step, pending, tcIdx,
                   reason, result, llmCalls, toolExecs, sideCalls, allOneCall, turns>>
    /\ UNCHANGED notAgent

\* Agent.add_user_message, called between runs.
AddUserMessage ==
    /\ pc \in {"new", "loaded", "ready", "done"}
    /\ turns < MaxTurns
    /\ Len(messages) < MaxMessages
    /\ messages' = Append(messages, Message("user", <<UserTexts[turns + 1]>>))
    /\ turns' = turns + 1
    /\ pc' = "ready"
    /\ UNCHANGED <<max_steps, tool_list, tools, tool_result, enable_summarization, core_memory, step, pending, tcIdx,
                   reason, result, llmCalls, toolExecs, sideCalls, allOneCall>>
    /\ UNCHANGED notAgent

\* Agent.run, lines 165-168: the locals are reset.
RunStart ==
    /\ pc = "ready"
    /\ step' = 0
    /\ llmCalls' = 0
    /\ toolExecs' = 0
    /\ allOneCall' = TRUE
    /\ reason' = ""
    /\ result' = NoResult
    /\ pending' = <<>>
    /\ tcIdx' = 0
    /\ pc' = "loop"
    /\ UNCHANGED <<messages, max_steps, tool_list, tools, tool_result, enable_summarization, core_memory, sideCalls,
                   turns>>
    /\ UNCHANGED notAgent

\* Lines 174-179: the loop test, step += 1 and the history compression, up to
\* the await of llm.generate.
StepBegin(outcome) ==
    /\ pc = "loop"
    /\ LoopContinues(step, max_steps)
    /\ step' = step + 1
    /\ LET r == maybe_summarize_messages(enable_summarization, messages, core_memory, outcome)
       IN /\ messages' = r.messages
          /\ core_memory' = r.core_memory
          /\ sideCalls' = IF r.called THEN sideCalls + 1 ELSE sideCalls
    /\ pc' = "llm"
    /\ UNCHANGED <<max_steps, tool_list, tools, tool_result, enable_summarization, pending, tcIdx, reason, result,
                   llmCalls, toolExecs, allOneCall, turns>>
    /\ UNCHANGED notAgent

\* Lines 344-358: the loop ended by the limit.
MaxStepsExit ==
    /\ pc = "loop"
    /\ ~LoopContinues(step, max_steps)
    /\ reason' = "max_steps_reached"
    /\ result' = [text |-> "Task couldn't be completed after n steps.", n |-> max_steps]
    /\ pc' = "done"
    /\ UNCHANGED <<messages, max_steps, tool_list, tools, tool_result, enable_summarization, core_memory, step, pending,
                   tcIdx, llmCalls, toolExecs, sideCalls, allOneCall, turns>>
    /\ UNCHANGED notAgent

LLMErrorContinues ==
    /\ pc = "llm"
    /\ llmCalls' = llmCalls + 1
    /\ allOneCall' = FALSE
    /\ reason' = "error"
    /\ result' = [text |-> "LLM call failed: ", n |-> 0]
    /\ pc' = "loop"
    /\ UNCHANGED <<messages, max_steps, tool_list, tools, tool_result, enable_summarization, core_memory, step, pending,
                   tcIdx, toolExecs, sideCalls, turns>>
    /\ UNCHANGED notAgent

\* Lines 210-227: llm.generate raises.
LLMError ==
    /\ pc = "llm"
    /\ llmCalls' = llmCalls + 1
    /\ allOneCall' = FALSE
    /\ reason' = "error"
    /\ result' = [text |-> "LLM call failed: ", n |-> 0]
    /\ pc' = "done"
    /\ UNCHANGED <<messages, max_steps, tool_list, tools, tool_result, enable_summarization, core_memory, step, pending,
                   tcIdx, toolExecs, sideCalls, turns>>
    /\ UNCHANGED notAgent

LLMFinalContinues ==
    /\ pc = "llm"
    /\ llmCalls' = llmCalls + 1
    /\ allOneCall' = FALSE
    /\ messages' = Append(messages, AssistantMessage(<<"answer">>, <<>>))
    /\ reason' = "task_completed"
    /\ result' = [text |-> "answer", n |-> 0]
    /\ pc' = "loop"
    /\ UNCHANGED <<max_steps, tool_list, tools, tool_result, enable_summarization, core_memory, step, pending, tcIdx,
                   toolExecs, sideCalls, turns>>
    /\ UNCHANGED notAgent

\* Lines 253-276: a response without tool calls ends the run.
LLMFinal ==
    /\ pc = "llm"
    /\ llmCalls' = llmCalls + 1
    /\ allOneCall' = FALSE
    /\ messages' = Append(messages, AssistantMessage(<<"answer">>, <<>>))
    /\ reason' = "task_completed"
    /\ result' = [text |-> "answer", n |-> 0]
    /\ pc' = "done"
    /\ UNCHANGED <<max_steps, tool_list, tools, tool_result, enable_summarization, core_memory, step, pending, tcIdx,
                   toolExecs, sideCalls, turns>>
    /\ UNCHANGED notAgent

\* Lines 253-279: a response with tool calls is appended and the tool loop starts.
LLMToolCalls(calls) ==
    /\ pc = "llm"
    /\ calls # <<>>
    /\ Len(messages) + 1 + Len(calls) <= MaxMessages
    /\ llmCalls' = llmCalls + 1
    /\ allOneCall' = (allOneCall /\ Len(calls) = 1)
    /\ messages' = Append(messages, AssistantMessage(<<"thought">>, calls))
    /\ pending' = calls
    /\ tcIdx' = 1
    /\ pc' = "tools"
    /\ UNCHANGED <<max_steps, tool_list, tools, tool_result, enable_summarization, core_memory, step, reason, result,
                   toolExecs, sideCalls, turns>>
    /\ UNCHANGED notAgent

ExecuteToolSkipsRest(outcome) ==
    /\ pc = "tools"
    /\ LET call == pending[tcIdx]
       IN /\ messages' = Append(messages, ToolMessage(ToolContent(call, outcome), call))
          /\ tool_result' = ToolResult(call, outcome)
    /\ toolExecs' = toolExecs + 1
    /\ pc' = "loop"
    /\ tcIdx' = 0
    /\ UNCHANGED <<max_steps, tool_list, tools, enable_summarization, core_memory, step, pending, reason,
                   result, llmCalls, sideCalls, allOneCall, turns>>
    /\ UNCHANGED notAgent

\* Lines 279-342: one iteration of the tool loop.
ExecuteTool(outcome) ==
    /\ pc = "tools"
    /\ LET call == pending[tcIdx]
       IN /\ messages' = Append(messages, ToolMessage(ToolContent(call, outcome), call))
          /\ tool_result' = ToolResult(call, outcome)
    /\ toolExecs' = toolExecs + 1
    /\ IF tcIdx = Len(pending)
       THEN pc' = "loop" /\ tcIdx' = 0
       ELSE pc' = "tools" /\ tcIdx' = tcIdx + 1
    /\ UNCHANGED <<max_steps, tool_list, tools, enable_summarization, core_memory, step, pending, reason,
                   result, llmCalls, sideCalls, allOneCall, turns>>
    /\ UNCHANGED notAgent

NextAgent ==
    \/ \E k \in 1..MaxHistoryRuns : InjectHistory(k)
    \/ AddUserMessage
    \/ RunStart
    \/ \E o \in ExtractOutcomes : StepBegin(o)
    \/ MaxStepsExit
    \/ LLMError
    \/ LLMFinal
    \/ \E calls \in ResponseCalls : LLMToolCalls(calls)
    \/ \E o \in ToolOutcomes : ExecuteTool(o)

(***************************************************************************)
(* One call of maybe_summarize_messages on an arbitrary history.           *)
(***************************************************************************)
MaxHistoryLen == 5     \* length of the histories passed to maybe_summarize_messages

HistoryMessages ==
    { SystemMessage,
      Message("user", <<"task1">>),
      Message("user", <<"task2">>),
      AssistantMessage(<<"thought">>, <<ToolCall("c1", "echo")>>),
      ToolMessage(<<"output">>, ToolCall("c1", "echo")) }

RECURSIVE Histories(_)
Histories(n) ==
    IF n = 0 THEN {<<>>}
    ELSE LET shorter == Histories(n - 1)
         IN shorter \cup {Append(h, m) : h \in {t \in shorter : Len(t) = n - 1},
                                         m \in HistoryMessages}

\* No second call has been made.
NoSecondCall == [messages |-> <<>>, core_memory |-> <<>>, called |-> FALSE, done |-> FALSE]

IdleSummarize ==
    /\ sIn = <<>>
    /\ sCore = <<>>
    /\ sEnabled = FALSE
    /\ sOut = <<>>
    /\ sCalled = FALSE
    /\ sOutcome = "-"
    /\ sDone = FALSE
    /\ sAgain = NoSecondCall

InitSummarize ==
    /\ sIn \in Histories(MaxHistoryLen)
    /\ sCore \in {<<>>, <<"earlier summary">>}
    /\ sEnabled \in BOOLEAN
    /\ sOut = <<>>
    /\ sCalled = FALSE
    /\ sOutcome = "-"
    /\ sDone = FALSE
    /\ sAgain = NoSecondCall

Summarize(outcome) ==
    /\ ~sDone
    /\ LET r == maybe_summarize_messages(sEnabled, sIn, sCore, outcome)
       IN /\ sOut' = r.messages
          /\ sCore' = r.core_memory
          /\ sCalled' = r.called
          /\ sOutcome' = IF r.called THEN outcome ELSE "-"
    /\ sDone' = TRUE
    /\ UNCHANGED <<sIn, sEnabled, sAgain>>
    /\ UNCHANGED notSummarize

\* The next step of the run (agent.py 174-179) passes the returned list to
\* maybe_summarize_messages again.
SummarizeAgain(outcome) ==
    /\ sDone
    /\ ~sAgain.done
    /\ LET r == maybe_summarize_messages(sEnabled, sOut, sCore, outcome)
       IN sAgain' = [messages |-> r.messages, core_memory |-> r.core_memory,
                     called |-> r.called, done |-> TRUE]
    /\ UNCHANGED <<sIn, sCore, sEnabled, sOut, sCalled, sOutcome, sDone>>
    /\ UNCHANGED notSummarize

IdleAgent ==
    /\ InitAgent
    /\ max_steps = 0
    /\ Len(tool_list) = 1
    /\ enable_summarization = FALSE

(***************************************************************************)
(* SpawnAgentTool (tools/spawn_agent_tool.py).                             *)
(* A tool instance is the record of its _current_depth, _max_depth and the *)
(* name of the dictionary it holds as _parent_tools.  NoTool stands for    *)
(* "no spawn_agent entry".                                                 *)
(***************************************************************************)
MaxDepth == 3          \* max_depth ranges over 1..MaxDepth
MaxAgentSteps == 2     \* LLM calls one agent of the chain makes
MaxSpawnExecs == 3     \* SpawnAgentTool.execute calls in one behaviour

NoTool == [current_depth |-> -1, max_depth |-> -1, parent_tools |-> "none"]

SpawnAgentTool(current_depth, max_depth, parent_tools) ==
    [current_depth |-> current_depth, max_depth |-> max_depth, parent_tools |-> parent_tools]

NoCall == [max_steps |-> 0, given |-> FALSE, names |-> {"-"}]

\* The `tools` argument of execute: None, or a list of names.
ToolsArguments ==
    {[given |-> FALSE, names |-> {}]}
    \cup {[given |-> TRUE, names |-> ns] : ns \in SUBSET {"read_file", "spawn_agent", "bogus"}}

AtDepthLimitStrict(current_depth, max_depth) == current_depth > max_depth

\* execute, line 166: if self._current_depth >= self._max_depth
AtDepthLimit(current_depth, max_depth) == current_depth >= max_depth

\* ToolResult(success=False, error=f"Maximum agent nesting depth ({self._max_depth}) reached. ...")
DepthLimitError(max_depth) ==
    [success |-> FALSE, text |-> "Maximum agent nesting depth (n) reached.", n |-> max_depth]

NoSpawnResult == [n |-> 0, text |-> "", success |-> FALSE]

build_sub_agent_toolsUnfiltered(self, tool_names, dicts) ==
    LET parent == dicts[self.parent_tools]
    IN IF tool_names.given
       THEN [others |-> tool_names.names \cap parent.others,
             spawn |-> IF "spawn_agent" \in tool_names.names /\ parent.spawn # NoTool
                       THEN parent.spawn
                       ELSE NoTool]
       ELSE [others |-> parent.others,
             spawn |-> IF parent.spawn # NoTool /\ self.current_depth + 1 < self.max_depth
                       THEN SpawnAgentTool(self.current_depth + 1, self.max_depth,
                                           self.parent_tools)
                       ELSE NoTool]

\* _build_sub_agent_tools (250-292): the child's other tools and its
\* spawn_agent entry.
build_sub_agent_tools(self, tool_names, dicts) ==
    LET parent == dicts[self.parent_tools]
    IN IF tool_names.given
       THEN [others |-> tool_names.names \cap parent.others,
             spawn |-> IF /\ "spawn_agent" \in tool_names.names
                          /\ parent.spawn # NoTool
                          /\ ~(self.current_depth + 1 >= self.max_depth)
                       THEN parent.spawn
                       ELSE NoTool]
       ELSE [others |-> parent.others,
             spawn |-> IF parent.spawn # NoTool /\ self.current_depth + 1 < self.max_depth
                       THEN SpawnAgentTool(self.current_depth + 1, self.max_depth,
                                           self.parent_tools)
                       ELSE NoTool]

\* execute, line 179: min(max_steps or self._default_max_steps, 30); the
\* max_steps argument 0 also stands for None.
effective_max_steps(requested, default_max_steps) ==
    LET chosen == IF requested # 0 THEN requested ELSE default_max_steps
    IN IF chosen < 30 THEN chosen ELSE 30

\* An agent of the chain: its nesting level, its tools, its max_steps, its
\* own message list (role and the level of the agent that appended it), the
\* LLM calls it has made and the spawn_agent call its last response asked for.
ChainAgent(level, sub_tools, limit) ==
    [level |-> level, others |-> sub_tools.others, spawn |-> sub_tools.spawn,
     max_steps |-> limit,
     messages |-> <<[role |-> "system", level |-> level], [role |-> "user", level |-> level]>>,
     steps |-> 0, pending |-> NoCall]

Top == agents[Len(agents)]

IdleSpawn ==
    /\ toolDicts = [d \in {"root", "inner"} |-> [others |-> {}, spawn |-> NoTool]]
    /\ agents = <<>>
    /\ spawnResult = NoSpawnResult
    /\ spawnExecs = 0
    /\ childrenCreated = 0
    /\ spawnLlmCalls = 0

\* The two ways the repository sets a tool up: parent_tools without a
\* spawn_agent entry (api/deps.py 547-559, core/team.py 186-197), and
\* parent_tools holding another instance whose own parent_tools is {}
\* (tests/integration/test_spawn_agent.py 236-257).
InitSpawn ==
    \E md \in 1..MaxDepth, cd \in 0..(MaxDepth + 1), nested \in BOOLEAN, pd \in 0..MaxDepth :
        /\ cd <= md + 1
        /\ pd <= md
        /\ nested \/ pd = 0
        /\ toolDicts =
              [d \in {"root", "inner"} |->
                  IF d = "root"
                  THEN [others |-> {"read_file"},
                        spawn |-> IF nested THEN SpawnAgentTool(pd, md, "inner") ELSE NoTool]
                  ELSE [others |-> {}, spawn |-> NoTool]]
        /\ agents = <<ChainAgent(cd, [others |-> {"read_file"},
                                      spawn |-> SpawnAgentTool(cd, md, "root")], 50)>>
        /\ spawnResult = NoSpawnResult
        /\ spawnExecs = 0
        /\ childrenCreated = 0
        /\ spawnLlmCalls = 0

\* The innermost agent's LLM answers with a spawn_agent call (Agent.run 211-260).
AgentAsksSpawn(arg) ==
    /\ agents # <<>>
    /\ Top.pending = NoCall
    /\ Top.spawn # NoTool
    /\ Top.steps < MaxAgentSteps
    /\ Top.steps < Top.max_steps
    /\ spawnExecs < MaxSpawnExecs
    /\ agents' = [agents EXCEPT ![Len(agents)].pending = arg,
                                ![Len(agents)].steps = @ + 1,
                                ![Len(agents)].messages =
                                    Append(@, [role |-> "assistant", level |-> Top.level])]
    /\ spawnLlmCalls' = spawnLlmCalls + 1
    /\ UNCHANGED <<toolDicts, spawnResult, spawnExecs, childrenCreated>>
    /\ UNCHANGED notSpawn

\* SpawnAgentTool.execute up to the await of sub_agent.run() (141-208).
SpawnExecute ==
    /\ agents # <<>>
    /\ Top.pending # NoCall
    /\ spawnExecs' = spawnExecs + 1
    /\ LET self == Top.spawn
       IN IF AtDepthLimit(self.current_depth, self.max_depth)
          THEN /\ spawnResult' = DepthLimitError(self.max_depth)
               /\ agents' = [agents EXCEPT ![Len(agents)].pending = NoCall,
                                           ![Len(agents)].messages =
                                               Append(@, [role |-> "tool", level |-> Top.level])]
               /\ UNCHANGED childrenCreated
          ELSE /\ agents' = Append(agents,
                                   ChainAgent(Top.level + 1,
                                              build_sub_agent_tools(self, Top.pending, toolDicts),
                                              effective_max_steps(Top.pending.max_steps,
                                                                  DefaultMaxSteps)))
               /\ childrenCreated' = childrenCreated + 1
               /\ UNCHANGED spawnResult
    /\ UNCHANGED <<toolDicts, spawnLlmCalls>>
    /\ UNCHANGED notSpawn

AgentReturnsWithHistory ==
    /\ agents # <<>>
    /\ Top.pending = NoCall
    /\ spawnLlmCalls' = IF Top.steps < Top.max_steps THEN spawnLlmCalls + 1 ELSE spawnLlmCalls
    /\ IF Len(agents) > 1
       THEN /\ agents' = [SubSeq(agents, 1, Len(agents) - 1)
                             EXCEPT ![Len(agents) - 1].pending = NoCall,
                                    ![Len(agents) - 1].messages =
                                        Append(@ \o Top.messages,
                                               [role |-> "tool", level |-> agents[Len(agents) - 1].level])]
            /\ spawnResult' = [success |-> TRUE, text |-> "## Sub-Agent Execution Result",
                               n |-> Top.level]
       ELSE /\ agents' = <<>>
            /\ UNCHANGED spawnResult
    /\ UNCHANGED <<toolDicts, spawnExecs, childrenCreated>>
    /\ UNCHANGED notSpawn

\* The innermost agent's run ends (a final answer, an LLM failure or the step
\* limit, which needs no LLM call); execute formats the result for the parent
\* (210-236), whose Agent.run appends it as one tool message (agent.py 336-342).
AgentReturns ==
    /\ agents # <<>>
    /\ Top.pending = NoCall
    /\ spawnLlmCalls' = IF Top.steps < Top.max_steps THEN spawnLlmCalls + 1 ELSE spawnLlmCalls
    /\ IF Len(agents) > 1
       THEN /\ agents' = [SubSeq(agents, 1, Len(agents) - 1)
                             EXCEPT ![Len(agents) - 1].pending = NoCall,
                                    ![Len(agents) - 1].messages =
                                        Append(@, [role |-> "tool", level |-> agents[Len(agents) - 1].level])]
            /\ spawnResult' = [success |-> TRUE, text |-> "## Sub-Agent Execution Result",
                               n |-> Top.level]
       ELSE /\ agents' = <<>>
            /\ UNCHANGED spawnResult
    /\ UNCHANGED <<toolDicts, spawnExecs, childrenCreated>>
    /\ UNCHANGED notSpawn

NextSpawn ==
    \/ \E arg \in ToolsArguments, requested \in {-1, 0, 2, 31} :
          AgentAsksSpawn([max_steps |-> requested, given |-> arg.given, names |-> arg.names])
    \/ SpawnExecute
    \/ AgentReturns

(***************************************************************************)
(* Team.run and Team._run_member (core/team.py).                           *)
(* Several Team.run calls may be in progress on one Team instance: each    *)
(* await (get_session, leader.run, member_agent.run) is a point where      *)
(* another call's steps interleave.  A run id is the number of the call    *)
(* slot (uuid4 values are distinct).                                       *)
(***************************************************************************)
MaxTeamCalls == 2      \* Team.run calls on the instance
MaxDelegations == 2    \* member executions in one behaviour

\* The names bound in the namespace of core/team.py: its imports (3-23) and
\* its class.
TeamModuleNames ==
    {"asyncio", "time", "Any", "Dict", "List", "Optional", "uuid4", "Agent", "LLMClient",
     "RunContext", "UnifiedTeamSessionManager", "TraceLogger", "get_current_trace",
     "set_current_trace", "TeamConfig", "TeamMemberConfig", "MemberRunResult",
     "TeamRunResponse", "TaskWithDependencies", "DependencyRunResponse", "Tool",
     "create_tool_from_function", "SpawnAgentTool", "Team"}

\* Evaluating the name RunRecord (250, 283, 486, 529, 798) raises NameError
\* unless the module binds it.
RunRecordBound == "RunRecord" \in TeamModuleNames

NameErrorText == "name 'RunRecord' is not defined"

RunRecord(run_id, parent_run_id, runner_type, runner_name, success) ==
    [run_id |-> run_id, parent_run_id |-> parent_run_id, runner_type |-> runner_type,
     runner_name |-> runner_name, success |-> success]

MemberRunResult(member_name, success, error) ==
    [member_name |-> member_name, success |-> success, error |-> error]

SessionIdArguments == {"s1", "s2", ""}     \* "" is session_id=None
ConfigMembers == <<"A", "B">>              \* config.members, in list order
TeamMembers == {ConfigMembers[i] : i \in DOMAIN ConfigMembers}
MemberIdArguments == TeamMembers \cup {"ghost"}
MemberOutcomes == {"success", "failed", "raised"}
LeaderOutcomes == {"completed", "max_steps_reached", "LLM call failed"}

\* session_manager.get_session: the session is created when it does not exist.
get_session(all, session_id) ==
    IF session_id \in DOMAIN all THEN all ELSE all @@ (session_id :> <<>>)

\* session_manager.add_run: the record is appended to the session's runs.
add_run(all, session_id, run) ==
    IF session_id \in DOMAIN all
    THEN [all EXCEPT ![session_id] = Append(@, run)]
    ELSE all

\* FunctionTool.execute 141-152: what the delegation tool hands to the leader.
NoToolResult == [content |-> <<>>, success |-> FALSE, error |-> ""]

IdleCall ==
    [messages |-> <<>>, pc |-> "idle", error |-> "", run_id |-> 0, session_id |-> "",
     member |-> "-", delegated |-> 0, results |-> <<>>, tool_output |-> NoToolResult]

\* The message list of the Agent that _run_member builds (199-217, Agent
\* 98-100, add_user_message): the member's system prompt and the task.  A
\* message carries who wrote it and the member run it belongs to.
MemberAgentMessagesShared(member, run) ==
    <<[role |-> "system", owner |-> "Leader", run |-> 0],
      [role |-> "user", owner |-> "task", run |-> run]>>

MemberAgentMessages(member, run) ==
    <<[role |-> "system", owner |-> member, run |-> run],
      [role |-> "user", owner |-> "task", run |-> run]>>

\* "\n\n".join(results), as the sequence of its pieces.
RECURSIVE JoinResults(_)
JoinResults(results) ==
    IF Len(results) <= 1
    THEN results
    ELSE <<Head(results), "\n\n">> \o JoinResults(Tail(results))

RECURSIVE Delegated(_, _)
Delegated(calls, n) == IF n = 0 THEN 0 ELSE calls[n].delegated + Delegated(calls, n - 1)

IdleTeam ==
    /\ sessions = <<>>
    /\ current_run_id = 0
    /\ member_runs = <<>>
    /\ teamCalls = <<>>
    /\ delegate_to_all = FALSE

InitTeam ==
    /\ sessions = <<>>
    /\ current_run_id = 0
    /\ member_runs = <<>>
    /\ teamCalls = [c \in 1..MaxTeamCalls |-> IdleCall]
    /\ delegate_to_all \in BOOLEAN

\* Team.run 341-372: reset member_runs, draw the run id, build the run
\* context (session_id or a fresh uuid) and get the session.
TeamRun(c, session_id) ==
    /\ teamCalls[c].pc = "idle"
    /\ \A b \in 1..(c - 1) : teamCalls[b].pc # "idle"
    /\ LET sid == IF session_id # "" THEN session_id ELSE "uuid-" \o ToString(c)
       IN /\ member_runs' = <<>>
          /\ current_run_id' = c
          /\ sessions' = IF sid # "" THEN get_session(sessions, sid) ELSE sessions
          /\ teamCalls' = [teamCalls EXCEPT ![c] =
                              [IdleCall EXCEPT !.pc = "leader", !.session_id = sid, !.run_id = c]]
    /\ UNCHANGED delegate_to_all
    /\ UNCHANGED notTeam

\* The leader calls delegate_task_to_member (401-432): an unknown member id
\* returns an error string, a known one starts _run_member (155-218).
LeaderDelegates(c, member_id) ==
    /\ teamCalls[c].pc = "leader"
    /\ ~delegate_to_all
    /\ member_id \in TeamMembers => Delegated(teamCalls, MaxTeamCalls) < MaxDelegations
    /\ IF member_id \in TeamMembers
       THEN teamCalls' = [teamCalls EXCEPT ![c].pc = "member", ![c].member = member_id,
                                           ![c].delegated = @ + 1,
                                           ![c].messages = MemberAgentMessages(member_id,
                                                               c * 10 + teamCalls[c].delegated + 1)]
       ELSE UNCHANGED teamCalls
    /\ UNCHANGED <<sessions, current_run_id, member_runs, delegate_to_all>>
    /\ UNCHANGED notTeam

\* The leader calls delegate_task_to_all_members (379-397): the loop starts
\* _run_member for the first member of config.members.
LeaderDelegatesAll(c) ==
    /\ teamCalls[c].pc = "leader"
    /\ delegate_to_all
    /\ Delegated(teamCalls, MaxTeamCalls) < MaxDelegations
    /\ teamCalls' = [teamCalls EXCEPT ![c].pc = "member", ![c].member = ConfigMembers[1],
                                        ![c].delegated = @ + 1, ![c].results = <<>>,
                                        ![c].messages = MemberAgentMessages(ConfigMembers[1],
                                                            c * 10 + teamCalls[c].delegated + 1)]
    /\ UNCHANGED <<sessions, current_run_id, member_runs, delegate_to_all>>
    /\ UNCHANGED notTeam

\* _run_member from the return of member_agent.run() (or the exception it or
\* the set-up raised) to the point where the delegation tool awaits again or
\* returns (218-297, 392-397, 425-432, FunctionTool.execute 132-152).
MemberEnds(c, outcome) ==
    /\ teamCalls[c].pc = "member"
    /\ LET call == teamCalls[c]
           saves == call.session_id # "" /\ current_run_id # 0
           response == CASE outcome = "success" -> "done"
                         [] outcome = "failed" -> "LLM call failed"
                         [] OTHER -> ""
           member_result == MemberRunResult(call.member, outcome = "success",
                                     IF outcome = "success" THEN "" ELSE outcome)
           failure == MemberRunResult(call.member, FALSE, NameErrorText)
           record(ok) == RunRecord(c * 10 + call.delegated, current_run_id, "member",
                                   call.member, ok)
           \* NameError at 250 is handled at 266; NameError at 283 leaves
           \* _run_member and the delegation function.
           escapes == saves /\ ~RunRecordBound
           results == Append(call.results, call.member \o ": " \o response)
           returned ==
               IF escapes
               THEN [NoToolResult EXCEPT !.error = NameErrorText]
               ELSE IF delegate_to_all
                    THEN [NoToolResult EXCEPT !.success = TRUE, !.content = JoinResults(results)]
                    ELSE [NoToolResult EXCEPT !.success = TRUE,
                             !.content = IF member_result.success
                                         THEN <<call.member \o " completed task:\n" \o response>>
                                         ELSE <<call.member \o " failed: " \o member_result.error>>]
       IN /\ member_runs' = IF escapes /\ outcome # "raised"
                            THEN member_runs \o <<member_result, failure>>
                            ELSE Append(member_runs, member_result)
          /\ sessions' = IF saves /\ RunRecordBound
                         THEN add_run(sessions, call.session_id,
                                      record(outcome # "raised" /\ member_result.success))
                         ELSE sessions
          /\ IF delegate_to_all /\ ~escapes /\ Len(results) < Len(ConfigMembers)
             THEN \* 392: the loop runs the next member
                  teamCalls' = [teamCalls EXCEPT ![c].member = ConfigMembers[Len(results) + 1],
                                                 ![c].delegated = @ + 1,
                                                 ![c].results = results,
                                                 ![c].messages =
                                                     MemberAgentMessages(ConfigMembers[Len(results) + 1],
                                                                         c * 10 + call.delegated + 1)]
             ELSE teamCalls' = [teamCalls EXCEPT ![c].pc = "leader", ![c].member = "-",
                                                 ![c].results = IF delegate_to_all /\ ~escapes
                                                                THEN results ELSE <<>>,
                                                 ![c].tool_output = returned,
                                                 ![c].messages = <<>>]
    /\ UNCHANGED <<current_run_id, delegate_to_all>>
    /\ UNCHANGED notTeam

\* Team.run from the return of leader.run() to the end of the call (466-551).
LeaderEnds(c, outcome) ==
    /\ teamCalls[c].pc = "leader"
    /\ LET call == teamCalls[c]
           success == outcome = "completed"
       IN IF call.session_id = ""
          THEN /\ teamCalls' = [teamCalls EXCEPT ![c].pc = "returned"]
               /\ UNCHANGED sessions
          ELSE IF RunRecordBound
               THEN /\ sessions' = add_run(sessions, call.session_id,
                                           RunRecord(current_run_id, 0, "team_leader", "team",
                                                     success))
                    /\ teamCalls' = [teamCalls EXCEPT ![c].pc = "returned"]
               ELSE \* NameError at 486, handled at 523; NameError again at 529
                    /\ teamCalls' = [teamCalls EXCEPT ![c].pc = "raised",
                                                      ![c].error = NameErrorText]
                    /\ UNCHANGED sessions
    /\ UNCHANGED <<current_run_id, member_runs, delegate_to_all>>
    /\ UNCHANGED notTeam

NextTeam ==
    \/ \E c \in 1..MaxTeamCalls, sid \in SessionIdArguments : TeamRun(c, sid)
    \/ \E c \in 1..MaxTeamCalls, m \in MemberIdArguments : LeaderDelegates(c, m)
    \/ \E c \in 1..MaxTeamCalls : LeaderDelegatesAll(c)
    \/ \E c \in 1..MaxTeamCalls, o \in MemberOutcomes : MemberEnds(c, o)
    \/ \E c \in 1..MaxTeamCalls, o \in LeaderOutcomes : LeaderEnds(c, o)

(***************************************************************************)
(* Team._resolve_dependencies and Team.run_with_dependencies               *)
(* (core/team.py).  Task ids are unique; depends_on is a list of ids.      *)
(***************************************************************************)
MaxTasks == 3          \* tasks in the list

TaskIds == {<<"a", "b", "c", "d", "e">>[i] : i \in 1..MaxTasks}

\* The depends_on lists a task is given; "zz" names no task.
DependsOnArguments ==
    {<<>>, <<"a">>, <<"b">>, <<"c">>, <<"a", "b">>, <<"a", "a">>, <<"zz">>}

Range(seq) == {seq[i] : i \in DOMAIN seq}

\* 570-573: a depends_on id that is not in task_map
NonExistentDependency(ts) ==
    \E t \in DOMAIN ts : \E d \in Range(ts[t].depends_on) : d \notin DOMAIN ts

InitialInDegreeZero(ts) == [t \in DOMAIN ts |-> 0]

\* 568: in_degree = {task.id: len(task.depends_on)}
InitialInDegree(ts) == [t \in DOMAIN ts |-> Len(ts[t].depends_on)]

CurrentLayerAll(remaining, in_degree) == remaining

\* 579-583: the remaining tasks whose in_degree is 0
CurrentLayer(remaining, in_degree) == {t \in remaining : in_degree[t] = 0}

\* 578-596: the loop of _resolve_dependencies.  Removing a task of the layer
\* takes one off the in_degree of every remaining task that lists it.
RECURSIVE ResolveLoop(_, _, _, _)
ResolveLoop(ts, remaining, in_degree, done) ==
    IF remaining = {} THEN [error |-> "", layers |-> done]
    ELSE LET current_layer == CurrentLayer(remaining, in_degree)
             rest == remaining \ current_layer
         IN IF current_layer = {}
            THEN [error |-> "Circular dependency detected", layers |-> <<>>]
            ELSE ResolveLoop(ts, rest,
                     [t \in DOMAIN ts |->
                         IF t \in rest
                         THEN in_degree[t]
                              - Cardinality(current_layer \cap Range(ts[t].depends_on))
                         ELSE in_degree[t]],
                     Append(done, current_layer))

\* _resolve_dependencies (553-596); error is the ValueError raised, if any.
resolve_dependencies(ts) ==
    IF NonExistentDependency(ts)
    THEN [error |-> "depends on non-existent task", layers |-> <<>>]
    ELSE ResolveLoop(ts, DOMAIN ts, InitialInDegree(ts), <<>>)

NoResponse == [success |-> FALSE, kind |-> "", failed_task |-> ""]

\* 621-627: the task text, then for a task with dependencies the header and
\* one "[dep_id]: result" entry for every id of depends_on that is in
\* completed_results.
task_descriptionTaskOnly(t, depends_on, completed) ==
    <<[kind |-> "task", id |-> t]>>

task_description(t, depends_on, completed) ==
    LET known(d) == d \in DOMAIN completed
        deps == SelectSeq(depends_on, known)
    IN <<[kind |-> "task", id |-> t]>>
       \o (IF depends_on # <<>>
           THEN <<[kind |-> "header"]>>
                \o [i \in 1..Len(deps) |->
                       [kind |-> "entry", dep_id |-> deps[i], result |-> completed[deps[i]]]]
           ELSE <<>>)

TaskOutcomes == MemberOutcomes \cup {"no member"}

IdleDeps ==
    /\ tasks = <<>>
    /\ completed_results = <<>>
    /\ depSession = ""
    /\ depPc = "idle"
    /\ layers = <<>>
    /\ layer_idx = 0
    /\ depResponse = NoResponse

InitDeps ==
    /\ tasks \in [TaskIds -> [depends_on : DependsOnArguments, status : {"pending"},
                              result : {<<>>}, prompt : {<<>>}]]
    /\ completed_results = <<>>
    /\ depSession \in {"", "s1"}
    /\ depPc = "new"
    /\ layers = <<>>
    /\ layer_idx = 0
    /\ depResponse = NoResponse
    /\ sessions = <<>>
    /\ current_run_id = 0
    /\ member_runs = <<>>

\* How a run_with_dependencies call ends after its body decided a response:
\* with a session _save_dependency_run_to_session (789-813) builds a
\* RunRecord first; the NameError is handled at 764, where the save is tried
\* again and the NameError leaves the call.
DepsEnds(response) ==
    IF depSession = "" \/ RunRecordBound
    THEN /\ depPc' = "returned"
         /\ depResponse' = response
         /\ sessions' = IF depSession # ""
                        THEN add_run(sessions, depSession,
                                     RunRecord(current_run_id, 0, "team_dependency", "team",
                                               response.success))
                        ELSE sessions
    ELSE /\ depPc' = "raised"
         /\ depResponse' = [success |-> FALSE, kind |-> NameErrorText, failed_task |-> ""]
         /\ UNCHANGED sessions

\* run_with_dependencies 672-687, and 764-787 when _resolve_dependencies raises.
DepsRun ==
    /\ depPc = "new"
    /\ current_run_id' = 1
    /\ LET resolved == resolve_dependencies(tasks)
       IN IF resolved.error # ""
          THEN /\ DepsEnds([success |-> FALSE, kind |-> resolved.error, failed_task |-> ""])
               /\ UNCHANGED <<layers, layer_idx>>
          ELSE /\ layers' = resolved.layers
               /\ layer_idx' = 1
               /\ depPc' = "layer"
               /\ UNCHANGED <<depResponse, sessions>>
    /\ UNCHANGED <<tasks, completed_results, depSession, member_runs>>
    /\ UNCHANGED notDeps

\* _execute_task_with_context up to its first await (606-629), for one of
\* the tasks asyncio.gather started (695-698).
TaskStarts(t) ==
    /\ depPc = "layer"
    /\ t \in layers[layer_idx]
    /\ tasks[t].status = "pending"
    /\ tasks' = [tasks EXCEPT ![t].status = "running",
                              ![t].prompt = task_description(t, tasks[t].depends_on,
                                                             completed_results)]
    /\ UNCHANGED <<completed_results, depSession, depPc, layers, layer_idx, depResponse>>
    /\ UNCHANGED <<sessions, current_run_id, member_runs>>
    /\ UNCHANGED notDeps

\* The rest of _execute_task_with_context (610-663) with the _run_member
\* call it makes (218-297).
TaskEnds(t, outcome) ==
    /\ depPc = "layer"
    /\ tasks[t].status = "running"
    /\ LET saves == depSession # "" /\ current_run_id # 0
           member_result == MemberRunResult("member", outcome = "success",
                                            IF outcome = "success" THEN "" ELSE outcome)
           failure == MemberRunResult("member", FALSE, NameErrorText)
       IN IF outcome = "no member"
          THEN /\ tasks' = [tasks EXCEPT ![t].status = "failed",
                                         ![t].result = <<"Error: No member with role">>]
               /\ UNCHANGED <<member_runs, sessions>>
          ELSE IF ~saves \/ RunRecordBound
               THEN /\ member_runs' = Append(member_runs, member_result)
                    /\ sessions' = IF saves
                                   THEN add_run(sessions, depSession,
                                                RunRecord(10 + Len(member_runs), current_run_id,
                                                          "member", "member",
                                                          member_result.success))
                                   ELSE sessions
                    /\ tasks' = [tasks EXCEPT
                                   ![t].status = IF member_result.success THEN "completed"
                                                 ELSE "failed",
                                   ![t].result = IF member_result.success THEN <<"response">>
                                                 ELSE IF outcome = "raised" THEN <<"raised">>
                                                 ELSE <<"Unknown error">>]
               ELSE /\ member_runs' = IF outcome = "raised"
                                      THEN Append(member_runs, member_result)
                                      ELSE member_runs \o <<member_result, failure>>
                    /\ UNCHANGED sessions
                    /\ tasks' = [tasks EXCEPT ![t].status = "failed",
                                              ![t].result = <<"Execution error: ", NameErrorText>>]
    /\ UNCHANGED <<completed_results, depSession, depPc, layers, layer_idx, depResponse,
                   current_run_id>>
    /\ UNCHANGED notDeps

\* A gather that would return with the first finished task of the layer.
LayerEndsAtFirstResult ==
    /\ depPc = "layer"
    /\ \E t \in layers[layer_idx] : tasks[t].status \in {"completed", "failed"}
    /\ LET failed == {t \in layers[layer_idx] : tasks[t].status = "failed"}
           later == UNION {layers[j] : j \in (layer_idx + 1)..Len(layers)}
       IN IF failed # {}
          THEN \E f \in failed, before \in SUBSET (layers[layer_idx] \ failed) :
                  \* 701: the results of the tasks listed before f, and of f
                  /\ completed_results' =
                         [t \in DOMAIN completed_results \cup before \cup {f} |->
                             IF t \in before \cup {f} THEN tasks[t].result
                             ELSE completed_results[t]]
                  /\ tasks' = [t \in DOMAIN tasks |->
                                  IF t \in later
                                  THEN [tasks[t] EXCEPT
                                           !.status = "skipped",
                                           !.result = <<"Skipped due to dependency failure: ", f>>]
                                  ELSE tasks[t]]
                  /\ DepsEnds([success |-> FALSE, kind |-> "task failed", failed_task |-> f])
                  /\ UNCHANGED layer_idx
          ELSE /\ completed_results' =
                      [t \in DOMAIN completed_results \cup layers[layer_idx] |->
                          IF t \in layers[layer_idx] THEN tasks[t].result
                          ELSE completed_results[t]]
               /\ IF layer_idx < Len(layers)
                  THEN /\ layer_idx' = layer_idx + 1
                       /\ UNCHANGED <<tasks, depPc, depResponse, sessions>>
                  ELSE /\ DepsEnds([success |-> TRUE, kind |-> "all tasks done",
                                    failed_task |-> ""])
                       /\ UNCHANGED <<tasks, layer_idx>>
    /\ UNCHANGED <<depSession, layers, current_run_id, member_runs>>
    /\ UNCHANGED notDeps

\* 700-762, once asyncio.gather has returned the layer's results: the first
\* failed task of layer_results (the layer is listed in set order) skips the
\* later layers and ends the run; otherwise the next layer starts, or the run
\* ends with success.
LayerEnds ==
    /\ depPc = "layer"
    /\ \A t \in layers[layer_idx] : tasks[t].status \in {"completed", "failed"}
    /\ LET failed == {t \in layers[layer_idx] : tasks[t].status = "failed"}
           later == UNION {layers[j] : j \in (layer_idx + 1)..Len(layers)}
       IN IF failed # {}
          THEN \E f \in failed, before \in SUBSET (layers[layer_idx] \ failed) :
                  \* 701: the results of the tasks listed before f, and of f
                  /\ completed_results' =
                         [t \in DOMAIN completed_results \cup before \cup {f} |->
                             IF t \in before \cup {f} THEN tasks[t].result
                             ELSE completed_results[t]]
                  /\ tasks' = [t \in DOMAIN tasks |->
                                  IF t \in later
                                  THEN [tasks[t] EXCEPT
                                           !.status = "skipped",
                                           !.result = <<"Skipped due to dependency failure: ", f>>]
                                  ELSE tasks[t]]
                  /\ DepsEnds([success |-> FALSE, kind |-> "task failed", failed_task |-> f])
                  /\ UNCHANGED layer_idx
          ELSE /\ completed_results' =
                      [t \in DOMAIN completed_results \cup layers[layer_idx] |->
                          IF t \in layers[layer_idx] THEN tasks[t].result
                          ELSE completed_results[t]]
               /\ IF layer_idx < Len(layers)
                  THEN /\ layer_idx' = layer_idx + 1
                       /\ UNCHANGED <<tasks, depPc, depResponse, sessions>>
                  ELSE /\ DepsEnds([success |-> TRUE, kind |-> "all tasks done",
                                    failed_task |-> ""])
                       /\ UNCHANGED <<tasks, layer_idx>>
    /\ UNCHANGED <<depSession, layers, current_run_id, member_runs>>
    /\ UNCHANGED notDeps

NextDeps ==
    \/ DepsRun
    \/ \E t \in TaskIds : TaskStarts(t)
    \/ \E t \in TaskIds, o \in TaskOutcomes : TaskEnds(t, o)
    \/ LayerEnds

(***************************************************************************)
(* AgentSessionManager with storage_path set (core/session.py 167-404).    *)
(* No operation awaits between changing self.sessions and the end of its   *)
(* save, so one operation is in progress at a time; a write can fail with  *)
(* an exception, or the process can die in the middle of it.               *)
(***************************************************************************)
MaxCallers == 3         \* operation calls in one behaviour
MaxRequests == 2        \* requests served in one behaviour

StoreOperations ==
    {"add_run", "add_run_async", "delete_session", "delete_session_async",
     "trim_session_runs", "cleanup_old_sessions"}

\* The operations that save with _save_to_storage_atomic (243, 264); the
\* others call _save_to_storage (228, 254, 375, 402).
SavesAtomically(op) == op \in {"add_run_async", "delete_session_async"}

\* The async operations run under "async with self._lock" (237, 260).
TakesLock(op) == op \in {"add_run_async", "delete_session_async"}

AppendRunFirst(runs, run) == <<run>> \o runs

\* AgentSession.add_run (62-65)
AppendRun(runs, run) == Append(runs, run)

\* add_run that would create the session it does not find.
AfterOperationCreating(all, op, session_id, run, expired, max_runs) ==
    CASE op \in {"add_run", "add_run_async"} ->
            IF session_id \in DOMAIN all
            THEN [all EXCEPT ![session_id] = AppendRun(@, run)]
            ELSE all @@ (session_id :> <<run>>)
      [] op \in {"delete_session", "delete_session_async"} ->
            [sid \in DOMAIN all \ {session_id} |-> all[sid]]
      [] op = "trim_session_runs" ->
            IF session_id \in DOMAIN all /\ Len(all[session_id]) > max_runs
            THEN [all EXCEPT ![session_id] =
                     IF max_runs = 0 THEN @ ELSE SubSeq(@, Len(@) - max_runs + 1, Len(@))]
            ELSE all
      [] op = "cleanup_old_sessions" ->
            [sid \in DOMAIN all \ expired |-> all[sid]]

\* self.sessions after the operation; cleanup deletes the sessions older than
\* the cutoff, here the set expired.  runs[-max_runs:] is the whole list when
\* max_runs is 0.
AfterOperation(all, op, session_id, run, expired, max_runs) ==
    CASE op \in {"add_run", "add_run_async"} ->
            IF session_id \in DOMAIN all
            THEN [all EXCEPT ![session_id] = AppendRun(@, run)]
            ELSE all
      [] op \in {"delete_session", "delete_session_async"} ->
            [sid \in DOMAIN all \ {session_id} |-> all[sid]]
      [] op = "trim_session_runs" ->
            IF session_id \in DOMAIN all /\ Len(all[session_id]) > max_runs
            THEN [all EXCEPT ![session_id] =
                     IF max_runs = 0 THEN @ ELSE SubSeq(@, Len(@) - max_runs + 1, Len(@))]
            ELSE all
      [] op = "cleanup_old_sessions" ->
            [sid \in DOMAIN all \ expired |-> all[sid]]

IdleStore ==
    /\ agentSessions = <<>>
    /\ storage_file = [state |-> "complete", data |-> <<>>]
    /\ temp_file = "absent"
    /\ callers = <<>>
    /\ lockOrder = <<>>
    /\ crashed = FALSE

\* A manager that loaded one empty session from its storage file.
InitStore ==
    /\ agentSessions = [sid \in {"s1"} |-> <<>>]
    /\ storage_file = [state |-> "complete", data |-> agentSessions]
    /\ temp_file = "absent"
    /\ callers = [c \in 1..MaxCallers |->
                      [op |-> "", session_id |-> "", pc |-> "idle", max_runs |-> 0,
                       removed_count |-> 0]]
    /\ lockOrder = <<>>
    /\ crashed = FALSE

\* An operation up to the point where its save has opened the file it writes:
\* the storage file itself, truncated by open("w") (288), or the .tmp file
\* (306-308).  An operation that changes nothing saves nothing and returns;
\* trim_session_runs saves whenever the session holds more than max_runs runs
\* and returns removed_count = len(session.runs) - max_runs (397).
OperationBegins(c, op, session_id, expired, max_runs) ==
    /\ ~crashed
    /\ callers[c].pc = "idle"
    /\ \A b \in DOMAIN callers : callers[b].pc # "writing"
    /\ expired \subseteq DOMAIN agentSessions
    /\ op = "cleanup_old_sessions" \/ expired = {}
    /\ op = "trim_session_runs" \/ max_runs = 0
    \* every operation returns at once for a session_id that is not in
    \* self.sessions (220, 238, 251, 261, 389); add_run, add_run_async and
    \* trim_session_runs are the calls made with one
    /\ session_id \in DOMAIN agentSessions \/ op \in {"add_run", "add_run_async", "trim_session_runs"}
    /\ LET after == AfterOperation(agentSessions, op, session_id, c, expired, max_runs)
           trims == /\ op = "trim_session_runs"
                    /\ session_id \in DOMAIN agentSessions
                    /\ Len(agentSessions[session_id]) > max_runs
           saves == after # agentSessions \/ trims
       IN /\ agentSessions' = after
          /\ callers' = [callers EXCEPT ![c] =
                            [op |-> op, session_id |-> session_id,
                             pc |-> IF saves THEN "writing" ELSE "returned",
                             max_runs |-> max_runs,
                             removed_count |-> IF trims
                                               THEN Len(agentSessions[session_id]) - max_runs
                                               ELSE 0]]
          /\ IF saves /\ ~SavesAtomically(op)
             THEN storage_file' = [storage_file EXCEPT !.state = "partial"]
             ELSE UNCHANGED storage_file
          /\ temp_file' = IF saves /\ SavesAtomically(op) THEN "partial" ELSE temp_file
    /\ lockOrder' = IF TakesLock(op) THEN Append(lockOrder, c) ELSE lockOrder
    /\ UNCHANGED crashed
    /\ UNCHANGED notStore

\* The write ends: json.dump finished (and the .tmp file replaced the storage
\* file, 309), or it raised (the .tmp file is unlinked, 310-314), or the
\* process died.
WriteEnds(c, outcome) ==
    /\ ~crashed
    /\ callers[c].pc = "writing"
    /\ LET atomic == SavesAtomically(callers[c].op)
       IN CASE outcome = "written" ->
                  /\ storage_file' = [state |-> "complete", data |-> agentSessions]
                  /\ temp_file' = IF atomic THEN "absent" ELSE temp_file
                  /\ callers' = [callers EXCEPT ![c].pc = "returned"]
                  /\ UNCHANGED crashed
            [] outcome = "raised" ->
                  /\ temp_file' = IF atomic THEN "absent" ELSE temp_file
                  /\ callers' = [callers EXCEPT ![c].pc = "raised"]
                  /\ UNCHANGED <<storage_file, crashed>>
            [] outcome = "died" ->
                  /\ crashed' = TRUE
                  /\ UNCHANGED <<storage_file, temp_file, callers>>
    /\ UNCHANGED <<agentSessions, lockOrder>>
    /\ UNCHANGED notStore

NextStore ==
    \/ \E c \in 1..MaxCallers, op \in StoreOperations, sid \in {"s1", "s2"},
          expired \in SUBSET {"s1"}, max_runs \in 0..1 :
             OperationBegins(c, op, sid, expired, max_runs)
    \/ \E c \in 1..MaxCallers, o \in {"written", "raised", "died"} : WriteEnds(c, o)

(***************************************************************************)
(* Specifications.                                                         *)
(***************************************************************************)
(***************************************************************************)
(* The endpoints POST /run and /run/stream (api/v1/endpoints/agent.py).    *)
(* Texts are sequences of pieces; <<>> is the empty string.                *)
(***************************************************************************)
\* What Agent.run returns (agent.py 216, 276, 344) for each way a run ends.
RunResult(ending) ==
    CASE ending = "task_completed" -> <<"answer">>
      [] ending = "empty_answer" -> <<>>
      [] ending = "error" -> <<"LLM call failed: ", "e">>
      [] ending = "max_steps_reached" ->
            <<"Task couldn't be completed after ", "n", " steps.">>

\* content_buffer of event_generator when run_stream is exhausted: the
\* message of the done event; the error events leave it as it is.
StreamContent(ending) ==
    IF ending = "task_completed" THEN <<"answer">> ELSE <<>>

\* run_agent 121: bool(result and not result.startswith("LLM call failed"));
\* run_agent_stream 264: success=True.
Success(path, text) ==
    IF path = "stream" THEN TRUE
    ELSE text # <<>> /\ Head(text) # "LLM call failed: "

AgentRunRecord(run_id, response, success) ==
    [success |-> success, run_id |-> run_id, response |-> response]

IdleRequest ==
    [pc |-> "idle", run_id |-> 0, session_id |-> "",
     record |-> AgentRunRecord(0, <<>>, FALSE), ending |-> "-", path |-> "-"]

IdleEndpoint ==
    /\ endpointSessions = <<>>
    /\ request = IdleRequest
    /\ served = 0

\* Lines 86-117 and 197-235: run_id = str(uuid4()), the session is fetched
\* when a session_id is given, the agent is about to run.
RequestBegins(path, session_id) ==
    /\ request.pc \in {"idle", "responded", "failed", "cancelled"}
    /\ served < MaxRequests
    /\ served' = served + 1
    /\ endpointSessions' = IF session_id # ""
                           THEN get_session(endpointSessions, session_id)
                           ELSE endpointSessions
    /\ request' = [IdleRequest EXCEPT !.pc = "running", !.path = path,
                                      !.session_id = session_id, !.run_id = served + 1]
    /\ UNCHANGED notEndpoint

\* Lines 118-134 and 238-268: agent.run returns, or run_stream is exhausted,
\* and the run record is built.
AgentRunEnds(ending) ==
    /\ request.pc = "running"
    /\ LET response == IF request.path = "stream" THEN StreamContent(ending)
                       ELSE RunResult(ending)
       IN request' = [request EXCEPT
              !.pc = IF request.session_id # "" THEN "saving" ELSE "responded",
              !.ending = ending,
              !.record = AgentRunRecord(request.run_id, response,
                                        Success(request.path, RunResult(ending)))]
    /\ UNCHANGED <<endpointSessions, served>>
    /\ UNCHANGED notEndpoint

\* Lines 146-157 and 274-285: an Exception left the try block.
AgentRunRaises ==
    /\ request.pc = "running"
    /\ request' = [request EXCEPT
           !.pc = IF request.session_id # "" THEN "saving_error" ELSE "failed",
           !.ending = "raised",
           !.record = AgentRunRecord(request.run_id, <<"Error: ", "e">>, FALSE)]
    /\ UNCHANGED <<endpointSessions, served>>
    /\ UNCHANGED notEndpoint

\* Lines 135-144, 158-162, 269-272 and 286-293: add_run returns and the
\* response (or the last event) is sent.
AddRunEnds ==
    /\ request.pc \in {"saving", "saving_error"}
    /\ endpointSessions' = add_run(endpointSessions, request.session_id, request.record)
    /\ request' = [request EXCEPT
           !.pc = IF request.pc = "saving" THEN "responded" ELSE "failed"]
    /\ UNCHANGED served
    /\ UNCHANGED notEndpoint

\* asyncio.CancelledError raised at the await the handler is suspended at.
\* It is not an Exception, so "except Exception" (146, 274) lets it through.
\* A cancelled add_run may or may not have stored its record.
Cancelled(stored) ==
    /\ request.pc \in {"running", "saving", "saving_error"}
    /\ stored => request.pc # "running"
    /\ endpointSessions' = IF stored
                           THEN add_run(endpointSessions, request.session_id, request.record)
                           ELSE endpointSessions
    /\ request' = [request EXCEPT !.pc = "cancelled"]
    /\ UNCHANGED served
    /\ UNCHANGED notEndpoint

NextEndpoint ==
    \/ \E path \in {"run", "stream"}, session_id \in {"", "s1"} :
          RequestBegins(path, session_id)
    \/ \E ending \in {"task_completed", "empty_answer", "error", "max_steps_reached"} :
          AgentRunEnds(ending)
    \/ AgentRunRaises
    \/ AddRunEnds
    \/ \E stored \in BOOLEAN : Cancelled(stored)

(***************************************************************************)
(* One AgentSession (core/session.py 42-107) with the operations that      *)
(* change its runs: add_run, and trim_session_runs of its manager.  A text *)
(* is a sequence of characters.                                            *)
(***************************************************************************)
MaxResponseChars == 5  \* the max_response_chars argument

NoneRuns == -1         \* num_runs=None; negative counts are not passed

\* time.time() returns a reading in 0..MaxClock.  It is the system clock: a
\* later call can return a lower value when the clock has been set back in
\* between.
MaxClock == 2

\* A response is short or longer than max_response_chars, its characters
\* numbered.
SessionRuns ==
    [task : {<<"t1">>, <<"t2">>},
     response : {<<"r">>, [i \in 1..(MaxResponseChars + 2) |-> ToString(i)]}]

\* seq[-n:] of Python for n >= 0: the last n elements, and for n = 0 (where
\* -0 is 0) the slice from index 0, which is the whole list.
LastElements(seq, n) ==
    IF n = 0 \/ n >= Len(seq) THEN seq ELSE SubSeq(seq, Len(seq) - n + 1, Len(seq))

\* 91-100: a long response keeps int(max * 0.7) leading and int(max * 0.2)
\* trailing characters around a note that names its length.
compressed_response(response, max_response_chars, smart_compress) ==
    IF smart_compress /\ Len(response) > max_response_chars
    THEN SubSeq(response, 1, (max_response_chars * 7) \div 10)
         \o <<"[... omitted, ", ToString(Len(response)), " characters ...]">>
         \o LastElements(response, (max_response_chars * 2) \div 10)
    ELSE response

\* get_history_messages 81-107
get_history_messages(runs, num_runs, max_response_chars, smart_compress) ==
    LET recent_runs == IF num_runs # NoneRuns
                       THEN IF runs # <<>> THEN LastElements(runs, num_runs) ELSE <<>>
                       ELSE runs
        \* the loop 87-105: the messages after the first k runs
        appended[k \in 0..Len(recent_runs)] ==
            IF k = 0 THEN <<>>
            ELSE appended[k - 1]
                 \o <<[role |-> "user", content |-> recent_runs[k].task],
                      [role |-> "assistant",
                       content |-> compressed_response(recent_runs[k].response,
                                                       max_response_chars, smart_compress)]>>
    IN appended[Len(recent_runs)]

IdleHistory ==
    /\ history_runs = <<>>
    /\ history_args = <<>>
    /\ history_messages = <<>>
    /\ history_done = FALSE
    /\ updated_at = 0

\* A session of up to MaxHistoryRuns + 1 runs, last updated at some reading,
\* and the arguments of the get_history_messages calls made on it.
InitHistory ==
    /\ \E n \in 0..(MaxHistoryRuns + 1) : history_runs \in [1..n -> SessionRuns]
    /\ history_args \in [num_runs : {NoneRuns} \cup 0..(MaxHistoryRuns + 2),
                         smart_compress : BOOLEAN]
    /\ history_messages = <<>>
    /\ history_done = FALSE
    /\ updated_at \in 0..MaxClock

GetHistoryMessages ==
    /\ ~history_done
    /\ history_messages' = get_history_messages(history_runs, history_args.num_runs,
                                                MaxResponseChars, history_args.smart_compress)
    /\ history_done' = TRUE
    /\ UNCHANGED <<history_runs, history_args, updated_at>>
    /\ UNCHANGED notHistory

\* AgentSession.add_run (62-65); now is what time.time() returns.
SessionAddRun(run, now) ==
    /\ Len(history_runs) <= MaxHistoryRuns
    /\ history_runs' = Append(history_runs, run)
    /\ updated_at' = now
    /\ history_messages' = <<>>
    /\ history_done' = FALSE
    /\ UNCHANGED history_args
    /\ UNCHANGED notHistory

\* trim_session_runs (392-399) on this session: nothing happens unless it
\* holds more than max_runs runs.
SessionTrimRuns(max_runs, now) ==
    /\ Len(history_runs) > max_runs
    /\ history_runs' = LastElements(history_runs, max_runs)
    /\ updated_at' = now
    /\ history_messages' = <<>>
    /\ history_done' = FALSE
    /\ UNCHANGED history_args
    /\ UNCHANGED notHistory

NextHistory ==
    \/ GetHistoryMessages
    \/ \E run \in SessionRuns, now \in 0..MaxClock : SessionAddRun(run, now)
    \/ \E max_runs \in 0..MaxHistoryRuns, now \in 0..MaxClock : SessionTrimRuns(max_runs, now)

(***************************************************************************)
(* AgentLogger (core/agent_logger.py) with ENABLE_DEBUG_LOGGING set: the   *)
(* logger of a parent agent and the logger of a child it spawned, writing  *)
(* to the one storage of get_run_log_storage.                              *)
(***************************************************************************)
MaxSeconds == 2        \* the clock seconds start_new_run can read
MaxLogIndex == 2       \* events logged in one run after RUN_START
MaxEvents == 5         \* events logged in one behaviour, by both loggers

AgentLoggers == {"parent", "child"}

\* AgentLogger.__init__ (22-25); nothing is stored yet.
IdleLogger ==
    /\ loggers = [l \in AgentLoggers |-> [run_id |-> 0, log_index |-> 0]]
    /\ save_tasks = <<>>
    /\ run_events = [r \in 1..MaxSeconds |-> <<>>]
    /\ log_clock = 1

\* The events logged so far: those stored and those waiting to be saved.
EventsLogged ==
    LET stored[r \in 0..MaxSeconds] ==
            IF r = 0 THEN 0 ELSE stored[r - 1] + Len(run_events[r])
    IN stored[MaxSeconds] + Len(save_tasks)

\* start_new_run() as Agent.run calls it (agent.py 170-171), without a
\* run_id: the id is the clock read to the second, the index starts again
\* at 0 and the RUN_START event is handed to _save_event_sync, which creates
\* the task that will save it (32-37).
StartNewRun(l, now) ==
    /\ now >= log_clock
    /\ EventsLogged < MaxEvents
    /\ loggers' = [loggers EXCEPT ![l] = [run_id |-> now, log_index |-> 0]]
    /\ save_tasks' = Append(save_tasks, [logger |-> l, type |-> "RUN_START", index |-> 0])
    /\ log_clock' = now
    /\ UNCHANGED run_events
    /\ UNCHANGED notLogger

\* log_request, log_response, log_tool_execution, log_step, log_completion
\* and log_event (163-311): self.log_index += 1, then the event with that
\* index is handed to _save_event_sync.
LogEvent(l) ==
    /\ loggers[l].run_id # 0
    /\ loggers[l].log_index < MaxLogIndex
    /\ EventsLogged < MaxEvents
    /\ loggers' = [loggers EXCEPT ![l].log_index = @ + 1]
    /\ save_tasks' = Append(save_tasks, [logger |-> l, type |-> "EVENT",
                                         index |-> loggers[l].log_index + 1])
    /\ UNCHANGED <<run_events, log_clock>>
    /\ UNCHANGED notLogger

\* The event loop runs the oldest task: _save_event_async (137-141) reads
\* self.run_id now and the storage appends the event under it (87-91).
SaveEvent ==
    /\ save_tasks # <<>>
    /\ LET task == Head(save_tasks)
           run_id == loggers[task.logger].run_id
       IN run_events' = [run_events EXCEPT ![run_id] =
                            Append(@, [type |-> task.type, index |-> task.index])]
    /\ save_tasks' = Tail(save_tasks)
    /\ UNCHANGED <<loggers, log_clock>>
    /\ UNCHANGED notLogger

NextLogger ==
    \/ \E l \in AgentLoggers, now \in 1..MaxSeconds : StartNewRun(l, now)
    \/ \E l \in AgentLoggers : LogEvent(l)
    \/ SaveEvent

(***************************************************************************)
(* Agent.run (core/agent.py 159-358) and Agent.run_stream (364-571), each  *)
(* on an agent of its own, given the same LLM outputs and the same tool    *)
(* results.  A text is a sequence of characters.  An LLM output is the     *)
(* list of its blocks, each a pair of a type and a payload: a thinking or  *)
(* content text, or a tool call; generate reads the blocks from the        *)
(* response body, generate_stream hands them on one event at a time.       *)
(* Optional values: None is <<>>, a text t is <<t>>; tool_calls None is    *)
(* <<>>, as in Message.                                                    *)
(***************************************************************************)
LLMOutputs ==
    { [events |-> <<>>, raises |-> FALSE],
      [events |-> <<<<"content_delta", <<"a", "n">>>>, <<"content_delta", <<"s">>>>>>,
       raises |-> FALSE],
      [events |-> <<<<"thinking_delta", <<"h">>>>, <<"thinking_delta", <<"m">>>>,
                    <<"content_delta", <<"a">>>>>>,
       raises |-> FALSE],
      [events |-> <<<<"content_delta", <<"t">>>>, <<"tool_use", <<ToolCall("c1", "echo")>>>>>>,
       raises |-> FALSE],
      [events |-> <<<<"tool_use", <<ToolCall("c1", "echo")>>>>,
                    <<"tool_use", <<ToolCall("c2", "ghost")>>>>>>,
       raises |-> FALSE],
      [events |-> <<>>, raises |-> TRUE],
      [events |-> <<<<"content_delta", <<"p">>>>>>, raises |-> TRUE] }

\* The payloads of the blocks of one type, joined in order.
RECURSIVE BlocksOf(_, _)
BlocksOf(events, type) ==
    IF events = <<>> THEN <<>>
    ELSE (IF Head(events)[1] = type THEN Head(events)[2] ELSE <<>>)
         \o BlocksOf(Tail(events), type)

\* LLMClient.generate (llm_client.py 166-195): text and thinking blocks are
\* joined, the tool_use blocks listed; an empty thinking text and an empty
\* list become None.
generate(events) ==
    [content |-> BlocksOf(events, "content_delta"),
     thinking |-> IF BlocksOf(events, "thinking_delta") # <<>>
                  THEN <<BlocksOf(events, "thinking_delta")>>
                  ELSE <<>>,
     tool_calls |-> BlocksOf(events, "tool_use")]

\* Message(role="assistant", content=..., thinking=..., tool_calls=...)
\* (agent.py 254-259, 467-472)
ThinkingMessage(content, thinking, calls) ==
    AssistantMessage(content, calls) @@ [thinking |-> thinking]

\* run_stream 419-446: one event of generate_stream is added to the buffers.
accumulate(buffers, event) ==
    CASE event[1] = "thinking_delta" -> [buffers EXCEPT !.thinking = @ \o event[2]]
      [] event[1] = "content_delta" -> [buffers EXCEPT !.content = @ \o event[2]]
      [] event[1] = "tool_use" -> [buffers EXCEPT !.tool_calls = @ \o event[2]]

NoBuffers == [content |-> <<>>, tool_calls |-> <<>>, thinking |-> <<>>]

IdleStream ==
    /\ plain_run = [messages |-> <<>>, pc |-> "idle"]
    /\ stream_run = [messages |-> <<>>, pc |-> "idle"]
    /\ llm_outputs = <<>>
    /\ tool_outcomes = <<>>
    /\ run_max_steps = 0

\* Two agents built alike, each given the same task, at the start of run and
\* of run_stream; each step makes one LLM call and at most two tool calls.
InitStream ==
    /\ run_max_steps \in 0..MaxSteps
    /\ llm_outputs \in [1..MaxSteps -> LLMOutputs]
    /\ tool_outcomes \in [1..(2 * MaxSteps) -> {"ok_long", "failed"}]
    /\ plain_run = [messages |-> <<SystemMessage, Message("user", <<"task1">>)>>,
                    pc |-> "loop", step |-> 0, pending |-> <<>>, idx |-> 0, execs |-> 0,
                    reason |-> ""]
    /\ stream_run = [messages |-> <<SystemMessage, Message("user", <<"task1">>)>>,
                     pc |-> "loop", step |-> 0, buffers |-> NoBuffers, cursor |-> 0,
                     idx |-> 0, execs |-> 0, reason |-> ""]

\* One step of Agent.run: the loop test and the compression (174-179), the
\* LLM call with the message it appends (209-276), one iteration of the tool
\* loop (279-342), the exit by the limit (344-358).
RunAdvances ==
    /\ plain_run.pc \notin {"idle", "done"}
    /\ plain_run' =
         CASE plain_run.pc = "loop" ->
                IF LoopContinues(plain_run.step, run_max_steps)
                THEN [plain_run EXCEPT
                         !.step = @ + 1,
                         !.messages = maybe_summarize_messages(TRUE, @, <<>>, "summary").messages,
                         !.pc = "llm"]
                ELSE [plain_run EXCEPT !.reason = "max_steps_reached", !.pc = "done"]
           [] plain_run.pc = "llm" ->
                IF llm_outputs[plain_run.step].raises
                THEN [plain_run EXCEPT !.reason = "error", !.pc = "done"]
                ELSE LET response == generate(llm_outputs[plain_run.step].events)
                         assistant_msg == ThinkingMessage(response.content, response.thinking,
                                                          response.tool_calls)
                     IN IF response.tool_calls = <<>>
                        THEN [plain_run EXCEPT !.messages = Append(@, assistant_msg),
                                               !.reason = "task_completed", !.pc = "done"]
                        ELSE [plain_run EXCEPT !.messages = Append(@, assistant_msg),
                                               !.pending = response.tool_calls,
                                               !.idx = 1, !.pc = "tools"]
           [] plain_run.pc = "tools" ->
                LET tool_call == plain_run.pending[plain_run.idx]
                    outcome == tool_outcomes[plain_run.execs + 1]
                    last == plain_run.idx = Len(plain_run.pending)
                IN [plain_run EXCEPT
                       !.messages = Append(@, ToolMessage(ToolContent(tool_call, outcome),
                                                          tool_call)),
                       !.execs = @ + 1,
                       !.idx = IF last THEN 0 ELSE @ + 1,
                       !.pc = IF last THEN "loop" ELSE "tools"]
    /\ UNCHANGED <<stream_run, llm_outputs, tool_outcomes, run_max_steps>>
    /\ UNCHANGED notStream

\* One step of Agent.run_stream: the loop test, the compression and the
\* empty buffers (382-413), one event of generate_stream (416-446), the end
\* of the stream by an exception (453-465) or by the done event with the
\* message rebuilt from the buffers (467-491), one iteration of the tool
\* loop (494-556), the exit by the limit (558-571).
StreamAdvances ==
    /\ stream_run.pc \notin {"idle", "done"}
    /\ stream_run' =
         CASE stream_run.pc = "loop" ->
                IF LoopContinues(stream_run.step, run_max_steps)
                THEN [stream_run EXCEPT
                         !.step = @ + 1,
                         !.messages = maybe_summarize_messages(TRUE, @, <<>>, "summary").messages,
                         !.buffers = NoBuffers,
                         !.cursor = 0,
                         !.pc = "stream"]
                ELSE [stream_run EXCEPT !.reason = "max_steps_reached", !.pc = "done"]
           [] stream_run.pc = "stream" ->
                LET output == llm_outputs[stream_run.step]
                    buffers == stream_run.buffers
                    assistant_msg ==
                        ThinkingMessage(buffers.content,
                                        IF buffers.thinking # <<>>
                                        THEN <<buffers.thinking>> ELSE <<>>,
                                        buffers.tool_calls)
                IN IF stream_run.cursor < Len(output.events)
                   THEN [stream_run EXCEPT
                            !.buffers = accumulate(@, output.events[stream_run.cursor + 1]),
                            !.cursor = @ + 1]
                   ELSE IF output.raises
                   THEN [stream_run EXCEPT !.reason = "error", !.pc = "done"]
                   ELSE IF buffers.tool_calls = <<>>
                   THEN [stream_run EXCEPT !.messages = Append(@, assistant_msg),
                                           !.reason = "completed", !.pc = "done"]
                   ELSE [stream_run EXCEPT !.messages = Append(@, assistant_msg),
                                           !.idx = 1, !.pc = "tools"]
           [] stream_run.pc = "tools" ->
                LET tool_call == stream_run.buffers.tool_calls[stream_run.idx]
                    outcome == tool_outcomes[stream_run.execs + 1]
                    last == stream_run.idx = Len(stream_run.buffers.tool_calls)
                IN [stream_run EXCEPT
                       !.messages = Append(@, ToolMessage(ToolContent(tool_call, outcome),
                                                          tool_call)),
                       !.execs = @ + 1,
                       !.idx = IF last THEN 0 ELSE @ + 1,
                       !.pc = IF last THEN "loop" ELSE "tools"]
    /\ UNCHANGED <<plain_run, llm_outputs, tool_outcomes, run_max_steps>>
    /\ UNCHANGED notStream

NextStream == RunAdvances \/ StreamAdvances

(***************************************************************************)
(* AgentTeam.run (core/agent_team.py).  One team with some members, a      *)
(* coordination strategy and a max_steps.  `step` is the local counter of  *)
(* the strategy's method, `ran` counts the member agents that were run,    *)
(* `steps` is the field of the TeamRunResult.  The LEADER_WORKER plan is   *)
(* whatever the coordinator's answer parses to; the fallback plan has one  *)
(* item per member.  Plan items name known members here.                   *)
(***************************************************************************)
MaxTeamMembers == 3
MaxTeamMaxSteps == 2

CoordinationStrategy == {"leader_worker", "broadcast", "sequential", "round_robin"}

IdleAgentTeam ==
    agent_team = [max_steps |-> 1, pc |-> "idle", step |-> 0, steps |-> 0,
                  strategy |-> "sequential", members |-> 1, plan |-> 0, ran |-> 0]

\* AgentTeam.__init__: any strategy, member count and max_steps; nothing
\* has run yet.
InitAgentTeam ==
    \E strategy \in CoordinationStrategy, m \in 1..MaxTeamMaxSteps,
       n \in 1..MaxTeamMembers, plan \in 0..MaxTeamMembers :
        agent_team = [max_steps |-> m, pc |-> "ready", step |-> 0, steps |-> 0,
                      strategy |-> strategy, members |-> n, plan |-> plan, ran |-> 0]

\* run() dispatches on the strategy.  LEADER_WORKER first runs the
\* coordinator for the plan (step 1).  ROUND_ROBIN hands back the coroutine
\* of _run_sequential without awaiting it: no member runs and the caller
\* gets no TeamRunResult.
TeamRunStarts ==
    /\ agent_team.pc = "ready"
    /\ agent_team' =
         CASE agent_team.strategy = "leader_worker" ->
                [agent_team EXCEPT !.step = 1, !.pc = "members"]
           [] agent_team.strategy = "round_robin" ->
                [agent_team EXCEPT !.pc = "no_result"]
           [] OTHER -> [agent_team EXCEPT !.pc = "members"]
    /\ UNCHANGED notAgentTeam

\* Number of loop iterations the strategy's for-loop has in front of it.
TeamLoopLength ==
    IF agent_team.strategy = "leader_worker" THEN agent_team.plan
    ELSE agent_team.members

\* One iteration of the member loop: step += 1, the member runs.  Only
\* LEADER_WORKER looks at max_steps, after the member has run.
TeamMemberRuns ==
    /\ agent_team.pc = "members"
    /\ agent_team.ran < TeamLoopLength
    /\ LET next_step == agent_team.step + 1
           stop == /\ agent_team.strategy = "leader_worker"
                   /\ next_step >= agent_team.max_steps
       IN agent_team' = [agent_team EXCEPT !.step = next_step, !.ran = @ + 1,
                            !.pc = IF stop THEN "synthesis" ELSE "members"]
    /\ UNCHANGED notAgentTeam

\* After the loop: LEADER_WORKER and BROADCAST count one more step for the
\* synthesis, SEQUENTIAL reports the loop's count.
TeamRunReturns ==
    /\ \/ agent_team.pc = "synthesis"
       \/ agent_team.pc = "members" /\ agent_team.ran = TeamLoopLength
    /\ LET next_step == IF agent_team.strategy = "sequential" THEN agent_team.step
                   ELSE agent_team.step + 1
       IN agent_team' = [agent_team EXCEPT !.step = next_step, !.steps = next_step,
                                            !.pc = "returned"]
    /\ UNCHANGED notAgentTeam

NextAgentTeam == TeamRunStarts \/ TeamMemberRuns \/ TeamRunReturns

Init == InitAgent /\ IdleSummarize /\ IdleSpawn /\ IdleTeam /\ IdleDeps /\ IdleStore /\ IdleEndpoint /\ IdleHistory /\ IdleLogger /\ IdleStream /\ IdleAgentTeam

Next == NextAgent

Spec == Init /\ [][Next]_vars

InitSum == IdleAgent /\ InitSummarize /\ IdleSpawn /\ IdleTeam /\ IdleDeps /\ IdleStore /\ IdleEndpoint /\ IdleHistory /\ IdleLogger /\ IdleStream /\ IdleAgentTeam

NextSum == \E o \in ExtractOutcomes : Summarize(o) \/ SummarizeAgain(o)

SpecSummarize == InitSum /\ [][NextSum]_vars

InitSpawnSpec == IdleAgent /\ IdleSummarize /\ InitSpawn /\ IdleTeam /\ IdleDeps /\ IdleStore /\ IdleEndpoint /\ IdleHistory /\ IdleLogger /\ IdleStream /\ IdleAgentTeam

SpecSpawn == InitSpawnSpec /\ [][NextSpawn]_vars

InitTeamSpec == IdleAgent /\ IdleSummarize /\ IdleSpawn /\ InitTeam /\ IdleDeps /\ IdleStore /\ IdleEndpoint /\ IdleHistory /\ IdleLogger /\ IdleStream /\ IdleAgentTeam

SpecTeam == InitTeamSpec /\ [][NextTeam]_vars

InitDepsSpec ==
    IdleAgent /\ IdleSummarize /\ IdleSpawn /\ teamCalls = <<>> /\ delegate_to_all = FALSE
    /\ InitDeps /\ IdleStore /\ IdleEndpoint /\ IdleHistory /\ IdleLogger /\ IdleStream /\ IdleAgentTeam

SpecDeps == InitDepsSpec /\ [][NextDeps]_vars

InitStoreSpec ==
    IdleAgent /\ IdleSummarize /\ IdleSpawn /\ IdleTeam /\ IdleDeps /\ InitStore /\ IdleEndpoint /\ IdleHistory /\ IdleLogger /\ IdleStream /\ IdleAgentTeam

SpecStore == InitStoreSpec /\ [][NextStore]_vars

InitEndpointSpec ==
    IdleAgent /\ IdleSummarize /\ IdleSpawn /\ IdleTeam /\ IdleDeps /\ IdleStore
    /\ IdleEndpoint /\ IdleHistory /\ IdleLogger /\ IdleStream /\ IdleAgentTeam

SpecEndpoint == InitEndpointSpec /\ [][NextEndpoint]_vars

InitHistorySpec ==
    InitHistory /\ IdleAgent /\ IdleSummarize /\ IdleSpawn /\ IdleTeam /\ IdleDeps /\ IdleStore
    /\ IdleEndpoint /\ IdleLogger /\ IdleStream /\ IdleAgentTeam

SpecHistory == InitHistorySpec /\ [][NextHistory]_vars

InitLoggerSpec ==
    IdleAgent /\ IdleSummarize /\ IdleSpawn /\ IdleTeam /\ IdleDeps /\ IdleStore
    /\ IdleEndpoint /\ IdleHistory /\ IdleLogger /\ IdleStream /\ IdleAgentTeam

SpecLogger == InitLoggerSpec /\ [][NextLogger]_vars

InitStreamSpec ==
    IdleAgent /\ IdleSummarize /\ IdleSpawn /\ IdleTeam /\ IdleDeps /\ IdleStore
    /\ IdleEndpoint /\ IdleHistory /\ IdleLogger /\ InitStream /\ IdleAgentTeam

SpecStream == InitStreamSpec /\ [][NextStream]_vars

InitAgentTeamSpec ==
    IdleAgent /\ IdleSummarize /\ IdleSpawn /\ IdleTeam /\ IdleDeps /\ IdleStore
    /\ IdleEndpoint /\ IdleHistory /\ IdleLogger /\ IdleStream /\ InitAgentTeam

SpecAgentTeam == InitAgentTeamSpec /\ [][NextAgentTeam]_vars

(***************************************************************************)
(* Properties.                                                             *)
(***************************************************************************)
\* Every assistant message of msgs that carries N tool calls is followed by
\* exactly N tool messages answering those calls' ids in order.
WellPaired(msgs) ==
    \A i \in 1..Len(msgs) :
        msgs[i].role = "assistant" =>
            LET n == Len(msgs[i].tool_calls)
            IN /\ i + n <= Len(msgs)
               /\ \A j \in 1..n :
                     /\ msgs[i + j].role = "tool"
                     /\ msgs[i + j].tool_call_id = msgs[i].tool_calls[j].id
               /\ (i + n + 1 <= Len(msgs) => msgs[i + n + 1].role # "tool")

\* C1: whenever Agent.run is about to call the LLM or has returned, every
\* assistant message of the history that carries N tool calls is immediately
\* followed by exactly N tool messages whose tool_call_id values are those
\* calls' ids, in the same order.
C1_ToolCallsAnswered == pc \in {"llm", "done"} => WellPaired(messages)

\* C1 witness: a run that ended by max steps, after a history compression,
\* with a two-call assistant message in its history.
C1_Witness ==
    /\ pc = "done"
    /\ reason = "max_steps_reached"
    /\ sideCalls > 0
    /\ \E i \in 1..Len(messages) : Len(messages[i].tool_calls) = 2

\* C2: with max_steps = n >= 1 and an LLM that answered every call with
\* exactly one tool call, the finished run made n LLM calls and n tool
\* executions, ended with reason max_steps_reached and returned the canonical
\* text for n.
C2_MaxStepsExact ==
    (pc = "done" /\ allOneCall /\ max_steps >= 1) =>
        /\ llmCalls = max_steps
        /\ toolExecs = max_steps
        /\ reason = "max_steps_reached"
        /\ result = [text |-> "Task couldn't be completed after n steps.", n |-> max_steps]

\* C2 witness: such a run with n = 2 has ended.
C2_Witness == pc = "done" /\ allOneCall /\ max_steps = 2 /\ llmCalls = 2

\* The position of the last user message of msgs, 0 when there is none.
LastUser(msgs) ==
    IF \E i \in 1..Len(msgs) : msgs[i].role = "user"
    THEN CHOOSE i \in 1..Len(msgs) :
            /\ msgs[i].role = "user"
            /\ \A j \in 1..Len(msgs) : msgs[j].role = "user" => j <= i
    ELSE 0

\* C10: the list maybe_summarize_messages returns starts with the input's
\* first message and ends with the input's messages from its last user
\* message onward, unchanged and in order.
C10_PreservesHeadAndTail ==
    (sDone /\ sIn # <<>>) =>
        /\ sOut # <<>>
        /\ sOut[1] = sIn[1]
        /\ LastUser(sIn) > 0 =>
              LET tailLen == Len(sIn) - LastUser(sIn) + 1
              IN /\ Len(sOut) >= tailLen
                 /\ SubSeq(sOut, Len(sOut) - tailLen + 1, Len(sOut))
                      = SubSeq(sIn, LastUser(sIn), Len(sIn))

\* C10 witness: a call that compressed the history and injected the memory.
C10_Witness ==
    /\ sDone
    /\ sCalled
    /\ sOut # sIn
    /\ Len(sOut) >= 4
    /\ sOut[2] = MemoryMessage(sCore)

\* C3: a SpawnAgentTool.execute call on an instance whose current_depth is at
\* or above max_depth returns the failed depth-limit result, constructs no
\* child agent and makes no LLM call.
C3_DepthLimitBlocksSpawn ==
    [][(/\ spawnExecs' = spawnExecs + 1
        /\ Top.spawn.current_depth >= Top.spawn.max_depth)
       => /\ spawnResult' = DepthLimitError(Top.spawn.max_depth)
          /\ Len(agents') = Len(agents)
          /\ childrenCreated' = childrenCreated
          /\ spawnLlmCalls' = spawnLlmCalls]_vars

\* C3 witness: execute has returned the depth-limit error of an instance at
\* its max_depth.
C3_Witness ==
    /\ spawnExecs > 0
    /\ agents # <<>>
    /\ Top.spawn # NoTool
    /\ Top.spawn.current_depth = Top.spawn.max_depth
    /\ spawnResult = DepthLimitError(Top.spawn.max_depth)

\* C4: a child agent at nesting level d holds no spawn_agent tool other than
\* one whose current_depth is d, and no child runs at a level above max_depth.
C4_ChildDepthMatchesLevel ==
    \A i \in 2..Len(agents) :
        /\ agents[i].spawn # NoTool => agents[i].spawn.current_depth = agents[i].level
        /\ agents[i].level <= agents[1].spawn.max_depth

\* C5: after a Team.run call with a session has ended, the session holds
\* exactly one team_leader record of this run, with no parent, and exactly one
\* member record per delegated member execution, each with the leader
\* record's run_id as parent_run_id.
C5_OneLeaderRecordPerRun ==
    \A c \in DOMAIN teamCalls :
        teamCalls[c].pc \in {"returned", "raised"} =>
            LET runs == sessions[teamCalls[c].session_id]
                leaders == {i \in DOMAIN runs : /\ runs[i].runner_type = "team_leader"
                                                /\ runs[i].run_id = teamCalls[c].run_id
                                                /\ runs[i].parent_run_id = 0}
                members == {i \in DOMAIN runs : /\ runs[i].runner_type = "member"
                                                /\ runs[i].parent_run_id = teamCalls[c].run_id}
            IN /\ Cardinality(leaders) = 1
               /\ Cardinality(members) = teamCalls[c].delegated

LayerOf(t) == CHOOSE i \in DOMAIN layers : t \in layers[i]

\* C7: when _resolve_dependencies returns layers, every task is in a layer
\* after the layers of all the ids in its depends_on.
C7_LayersTopological ==
    depPc = "layer" =>
        \A b \in DOMAIN tasks : \A a \in Range(tasks[b].depends_on) :
            /\ \E i \in DOMAIN layers : a \in layers[i]
            /\ \E i \in DOMAIN layers : b \in layers[i]
            /\ LayerOf(a) < LayerOf(b)

\* C7 witness: a task list resolved into three layers, one task in each.
C7_Witness ==
    /\ depPc = "layer"
    /\ Len(layers) = 3
    /\ \E t \in DOMAIN tasks : Len(tasks[t].depends_on) = 2

\* C8: once a task of a layer has failed, no task of a later layer is
\* running; when the run has ended after a failure, every task of a later
\* layer is skipped with a reason naming a failed task, having been pending
\* until then, and the run has returned success = false.
C8_FailureSkipsLaterLayers ==
    /\ \A t \in DOMAIN tasks :
          (depPc # "new" /\ layers # <<>> /\ tasks[t].status = "running") =>
              \A u \in DOMAIN tasks : LayerOf(u) < LayerOf(t) => tasks[u].status # "failed"
    /\ (depPc \in {"returned", "raised"} /\ \E u \in DOMAIN tasks : tasks[u].status = "failed") =>
          /\ \A t \in DOMAIN tasks :
                (\E u \in DOMAIN tasks : tasks[u].status = "failed" /\ LayerOf(u) < LayerOf(t)) =>
                    /\ tasks[t].status = "skipped"
                    /\ \E f \in DOMAIN tasks :
                          /\ tasks[f].status = "failed"
                          /\ tasks[t].result = <<"Skipped due to dependency failure: ", f>>
          /\ depPc = "returned"
          /\ depResponse.success = FALSE

RECURSIVE DependencyClosure(_)
DependencyClosure(ids) ==
    LET more == ids \cup UNION {Range(tasks[t].depends_on) \cap DOMAIN tasks : t \in ids}
    IN IF more = ids THEN ids ELSE DependencyClosure(more)

\* A task that depends on itself, directly or through other tasks.
DependencyCycle ==
    \E t \in DOMAIN tasks :
        t \in DependencyClosure(Range(tasks[t].depends_on) \cap DOMAIN tasks)

DanglingDependency ==
    \E t \in DOMAIN tasks : \E d \in Range(tasks[t].depends_on) : d \notin DOMAIN tasks

C11_CompressedShape ==
    (sDone /\ sCalled) =>
        /\ sCore # <<>>
        /\ sOut = <<sIn[1], MemoryMessage(sCore), AckMessage>>
                  \o SubSeq(sIn, LastUser(sIn), Len(sIn))

\* C12: when two add_run_async calls for the same existing session have both
\* returned, both records are in the session's runs and in the storage file,
\* in the order in which the two calls acquired the lock.
C12_ConcurrentAddRunsKept ==
    \A a, b \in DOMAIN callers :
        (/\ a # b
         /\ \A c \in DOMAIN callers : callers[c].op \in {"add_run_async", ""}
         /\ callers[a].pc = "returned" /\ callers[b].pc = "returned"
         /\ callers[a].session_id = "s1" /\ callers[b].session_id = "s1"
         /\ \E i, j \in DOMAIN lockOrder : i < j /\ lockOrder[i] = a /\ lockOrder[j] = b) =>
            /\ \E i, j \in DOMAIN agentSessions["s1"] :
                  i < j /\ agentSessions["s1"][i] = a /\ agentSessions["s1"][j] = b
            /\ storage_file.state = "complete"
            /\ \E i, j \in DOMAIN storage_file.data["s1"] :
                  i < j /\ storage_file.data["s1"][i] = a /\ storage_file.data["s1"][j] = b

\* C12 witness: two add_run_async calls on session s1 have returned, the
\* second caller having taken the lock first.
C12_Witness ==
    /\ callers[1].op = "add_run_async" /\ callers[2].op = "add_run_async"
    /\ callers[1].pc = "returned" /\ callers[2].pc = "returned"
    /\ callers[1].session_id = "s1" /\ callers[2].session_id = "s1"
    /\ lockOrder = <<2, 1>>

\* C20: after a write of the storage file failed or the process died in the
\* middle of one, the storage file holds a complete content, for every
\* mutating operation.
C20_StorageNeverPartial ==
    (crashed \/ \E c \in DOMAIN callers : callers[c].pc = "raised") =>
        storage_file.state = "complete"


\* The history ends with the assistant message carrying the current
\* response's tool calls followed by the tool messages of its first n calls,
\* in the emitted order.
ToolTail(n) ==
    LET base == Len(messages) - n
    IN /\ base >= 1
       /\ messages[base].role = "assistant"
       /\ messages[base].tool_calls = pending
       /\ \A j \in 1..n :
             /\ messages[base + j].role = "tool"
             /\ messages[base + j].tool_call_id = pending[j].id
             /\ messages[base + j].name = pending[j].name

C13_State ==
    /\ pc = "tools" => (tcIdx \in 1..Len(pending) /\ ToolTail(tcIdx - 1))
    /\ (pc = "loop" /\ pending # <<>>) => ToolTail(Len(pending))

C13_Step ==
    /\ llmCalls' = llmCalls + 1 => pc = "llm"
    /\ (pc' = "llm" /\ pc # "llm") => pc = "loop"
    /\ toolExecs' = toolExecs + 1 =>
          /\ pc = "tools"
          /\ Len(messages') = Len(messages) + 1
          /\ messages'[Len(messages')].tool_call_id = pending[tcIdx].id
          /\ messages'[Len(messages')].name = pending[tcIdx].name
          /\ IF tcIdx < Len(pending)
             THEN pc' = "tools" /\ tcIdx' = tcIdx + 1
             ELSE pc' = "loop"

\* C13: the tool calls of one assistant message are executed one at a time
\* in the emitted order, each exactly once: while the tool loop is at call k
\* the history ends with that assistant message and the tool messages of
\* calls 1..k-1, each execution appends the tool message of the call the loop
\* is at and moves to the next call, and the next LLM call is made only from
\* the loop head, where the tool messages of all the calls are in the history.
C13_ToolCallsSequential == [](C13_State) /\ [][C13_Step]_vars

\* C13 witness: a two-call response was executed in full and the second LLM
\* call of the run is about to be made.
C13_Witness == pc = "llm" /\ step = 2 /\ Len(pending) = 2 /\ toolExecs = 2

C14_Step ==
    /\ (pc = "llm" /\ reason' = "error") =>
          /\ pc' = "done"
          /\ result'.text = "LLM call failed: "
          /\ messages' = messages
          /\ toolExecs' = toolExecs
    /\ (pc = "done" /\ reason = "error") =>
          (llmCalls' = llmCalls /\ toolExecs' = toolExecs /\ pc' # "llm" /\ pc' # "tools")

\* C14: when the LLM call of a step raises, Agent.run ends at once: the
\* returned text starts with "LLM call failed: ", the completion is logged
\* with reason error, no message is appended for that step, and the run makes
\* no further LLM call or tool execution.
C14_LLMErrorEndsRun ==
    [](reason = "error" => (pc \in {"done", "ready"} /\ result.text = "LLM call failed: "))
    /\ [][C14_Step]_vars

\* C14 witness: the LLM call of the second step raised, after a tool ran in
\* the first step.
C14_Witness == pc = "done" /\ reason = "error" /\ step = 2 /\ toolExecs >= 1

C15_Step ==
    toolExecs' = toolExecs + 1 =>
        LET call == pending[tcIdx]
            m == messages'[Len(messages')]
        IN /\ messages' = Append(messages, m)
           /\ m.role = "tool"
           /\ m.tool_call_id = call.id
           /\ call.name \notin RegisteredTools =>
                 m.content = <<"Error: ", "Unknown tool: ", call.name>>
           /\ (\E k \in 1..Len(m.content) : m.content[k] = "Tool execution failed: ") =>
                 m.content[1] = "Error: "
           /\ reason' = reason
           /\ IF tcIdx < Len(pending)
              THEN pc' = "tools" /\ tcIdx' = tcIdx + 1
              ELSE pc' = "loop"

\* C15: a tool call naming an unregistered tool, or a registered tool whose
\* execute raises, does not end the run: exactly one tool message answering
\* that call id is appended, its content starts with "Error: ", the remaining
\* tool calls of the response are still executed and the loop goes on.
C15_ToolFailureDoesNotAbort ==
    [](pc = "tools" => reason = "") /\ [][C15_Step]_vars

\* C15 witness: an unknown tool was answered with an error, the next call of
\* the same response raised and was answered with an error, and the run went
\* on to its next LLM call.
C15_Witness ==
    /\ pc = "llm"
    /\ \E i \in 1..(Len(messages) - 1) :
          /\ messages[i].content = <<"Error: ", "Unknown tool: ", "ghost">>
          /\ messages[i + 1].content = <<"Error: ", "Tool execution failed: ">>

C16_Step ==
    (pc = "llm" /\ Len(messages') = Len(messages) + 1
       /\ messages'[Len(messages')].tool_calls = <<>>) =>
        /\ pc' = "done"
        /\ reason' = "task_completed"
        /\ <<result'.text>> = messages'[Len(messages')].content
        /\ toolExecs' = toolExecs

\* C16: Agent.run returns at the first LLM response that carries no tool
\* calls: the returned text is that response's content, the completion is
\* logged with reason task_completed, and no LLM call or tool execution
\* follows in that run.
C16_FinalResponseEndsRun ==
    /\ [](reason = "task_completed" =>
            /\ pc \in {"done", "ready"}
            /\ \E i \in 1..Len(messages) :
                  /\ messages[i].role = "assistant"
                  /\ messages[i].tool_calls = <<>>
                  /\ messages[i].content = <<result.text>>)
    /\ [][C16_Step]_vars
    /\ [][(pc = "done" /\ reason = "task_completed") =>
            (llmCalls' = llmCalls /\ toolExecs' = toolExecs /\ pc' # "llm" /\ pc' # "tools")]_vars

\* C16 witness: a run answered without tool calls in its second step.
C16_Witness == pc = "done" /\ reason = "task_completed" /\ step = 2 /\ toolExecs >= 1

\* The records of the request's run in its session.
RunRecords ==
    IF request.session_id \in DOMAIN endpointSessions
    THEN { i \in 1..Len(endpointSessions[request.session_id]) :
             endpointSessions[request.session_id][i].run_id = request.run_id }
    ELSE {}

\* C17: a run with a session that was cancelled at a suspension point has a
\* record in its session, with success = false.
C17_CancelledRunRecorded ==
    (request.pc = "cancelled" /\ request.session_id # "") =>
        \E i \in RunRecords : ~endpointSessions[request.session_id][i].success

\* C18: when a run with a session ended because max_steps was reached and
\* its record was stored, the record has success = false.
C18_MaxStepsRecordFails ==
    (request.pc = "responded" /\ request.ending = "max_steps_reached"
       /\ request.session_id # "") =>
        /\ RunRecords # {}
        /\ \A i \in RunRecords : ~endpointSessions[request.session_id][i].success

\* C19: when the LLM call failed during a run with a session_id and the
\* handler has answered, the session holds exactly one record of that run and
\* the record has success = false, for POST /run and POST /run/stream.
C19_LLMFailureRecordedOnce ==
    (request.pc = "responded" /\ request.ending = "error"
       /\ request.session_id # "") =>
        /\ Cardinality(RunRecords) = 1
        /\ \A i \in RunRecords : ~endpointSessions[request.session_id][i].success

\* C22: every child agent of the chain runs with a max_steps of at least 1
\* and at most 30.
C22_ChildMaxStepsClamped ==
    \A i \in 2..Len(agents) : agents[i].max_steps >= 1 /\ agents[i].max_steps <= 30

\* C23: a child built by a SpawnAgentTool whose current_depth + 1 reaches its
\* max_depth holds no spawn_agent tool, whether its tools were inherited or
\* named in the tools argument.
C23_NoSpawnToolAtMaxDepth ==
    \A i \in 2..Len(agents) :
        LET builder == agents[i - 1].spawn
        IN builder.current_depth + 1 >= builder.max_depth => agents[i].spawn = NoTool

\* C23 witness: a child was built with tools = [..., "spawn_agent", ...] by a
\* tool one level below its max_depth whose parent_tools hold a spawn_agent
\* entry, and has no spawn_agent tool.
C23_Witness ==
    /\ Len(agents) >= 2
    /\ LET builder == agents[Len(agents) - 1].spawn
       IN /\ builder.current_depth + 1 = builder.max_depth
          /\ toolDicts[builder.parent_tools].spawn # NoTool
    /\ agents[Len(agents) - 1].pending.given
    /\ "spawn_agent" \in agents[Len(agents) - 1].pending.names
    /\ Top.spawn = NoTool

\* C24: the message list of every agent of the chain holds only messages
\* that agent appended itself, and the return of a child's run changes its
\* parent's list by exactly one appended tool message.
C24_ParentSeesOneToolMessage ==
    /\ [](\A i \in 1..Len(agents) :
            \A k \in 1..Len(agents[i].messages) :
                agents[i].messages[k].level = agents[i].level)
    /\ [][Len(agents') < Len(agents) /\ Len(agents) > 1 =>
            LET p == Len(agents) - 1
            IN /\ Len(agents'[p].messages) = Len(agents[p].messages) + 1
               /\ SubSeq(agents'[p].messages, 1, Len(agents[p].messages)) = agents[p].messages
               /\ agents'[p].messages[Len(agents'[p].messages)].role = "tool"]_vars

\* C24 witness: a child that made an LLM call of its own has returned and its
\* parent's history ends with the tool message of the call.
C24_Witness ==
    /\ agents # <<>>
    /\ spawnResult.success
    /\ childrenCreated >= 2
    /\ Top.pending = NoCall
    /\ Len(Top.messages) >= 4
    /\ Top.messages[Len(Top.messages)].role = "tool"

\* C29: when the side LLM call of a compression raised, the call still
\* returns the compressed list: the system prompt, a memory message carrying
\* the sentinel that states the number of compressed rounds (the user
\* messages between the kept first message and the last user message), the
\* acknowledgment and the tail from the last user message.
C29_ExtractionFailureLeavesSentinel ==
    (sDone /\ sOutcome = "raise") =>
        LET compressed == Cardinality({i \in 2..(LastUser(sIn) - 1) : sIn[i].role = "user"})
        IN /\ sCore = <<"[", ToString(compressed),
                        " rounds of conversation history, extraction failed]">>
           /\ sOut = <<sIn[1], MemoryMessage(sCore), AckMessage>>
                     \o SubSeq(sIn, LastUser(sIn), Len(sIn))

\* C29 witness: a compression of two rounds whose side call raised, made
\* while an earlier core memory existed.
C29_Witness ==
    /\ sDone
    /\ sOutcome = "raise"
    /\ sCore = SentinelText(2)
    /\ Len(sOut) < Len(sIn)

\* C30: a trim_session_runs(session_id, max_runs) call on an existing session
\* of n runs leaves exactly the last min(n, max_runs) runs, in their order, and
\* returns the number of runs it removed.
C30_TrimKeepsLastRuns ==
    [][\A c \in DOMAIN callers :
          (/\ callers[c].pc = "idle"
           /\ callers'[c].op = "trim_session_runs"
           /\ callers'[c].session_id \in DOMAIN agentSessions) =>
              LET sid == callers'[c].session_id
                  n == Len(agentSessions[sid])
                  kept == IF n < callers'[c].max_runs THEN n ELSE callers'[c].max_runs
              IN /\ agentSessions'[sid] = SubSeq(agentSessions[sid], n - kept + 1, n)
                 /\ callers'[c].removed_count = n - kept]_vars

\* C21: for a successful tool result of length L, the tool message content is
\* the output when L <= tool_output_limit, and the first tool_output_limit
\* characters followed by the truncation suffix when L > tool_output_limit;
\* the logged ToolResult keeps all L characters.
C21_ToolOutputTruncated ==
    [][(toolExecs' = toolExecs + 1 /\ tool_result'.success) =>
          LET content == tool_result'.content
              L == Len(content)
              shown == messages'[Len(messages')].content
          IN /\ L <= ToolOutputLimit => shown = content
             /\ L > ToolOutputLimit =>
                   /\ Len(shown) = ToolOutputLimit + 3
                   /\ \A i \in 1..ToolOutputLimit : shown[i] = content[i]
                   /\ shown[ToolOutputLimit + 1] = "\n\n[... output truncated, "
                   /\ shown[ToolOutputLimit + 2] = ToString(L - ToolOutputLimit)
                   /\ shown[ToolOutputLimit + 3] = " more characters ...]"]_vars

\* C21 witness: a tool returned two characters more than tool_output_limit
\* and its tool message is the last message of the history.
C21_Witness ==
    /\ tool_result.success
    /\ Len(tool_result.content) = ToolOutputLimit + 2
    /\ messages[Len(messages)].role = "tool"
    /\ Len(messages[Len(messages)].content) = ToolOutputLimit + 3

\* C25: an Agent is never constructed from a tools list in which two tools
\* have the same name.
C25_DuplicateToolNamesRejected ==
    \A i, j \in DOMAIN tool_list : i # j => tool_list[i].name # tool_list[j].name

\* C26: once delegate_task_to_all_members has returned to the leader, every
\* member of config.members has been run exactly once, in list order, and
\* the tool's content is the members' "name: response" entries in that order
\* joined by blank lines.
C26_DelegateAllRunsEveryMember ==
    \A c \in DOMAIN teamCalls :
        (delegate_to_all /\ teamCalls[c].pc = "leader" /\ teamCalls[c].tool_output # NoToolResult)
        => /\ teamCalls[c].tool_output.success
           /\ Len(teamCalls[c].results) = Len(ConfigMembers)
           /\ \A i \in DOMAIN teamCalls[c].results :
                  teamCalls[c].results[i] \in
                      {ConfigMembers[i] \o ": " \o text : text \in {"done", "LLM call failed", ""}}
           /\ teamCalls[c].tool_output.content = JoinResults(teamCalls[c].results)

C28_DependencyResultsInPrompt ==
    \A t \in DOMAIN tasks :
        (tasks[t].status = "running" /\ tasks[t].depends_on # <<>>)
        => /\ \A d \in Range(tasks[t].depends_on) :
                  /\ d \in DOMAIN completed_results
                  /\ completed_results[d] = tasks[d].result
                  /\ Cardinality({i \in DOMAIN tasks[t].prompt :
                                     tasks[t].prompt[i] = [kind |-> "entry", dep_id |-> d,
                                                           result |-> completed_results[d]]}) = 1
           /\ Len(tasks[t].prompt) = 2 + Cardinality(Range(tasks[t].depends_on))
           /\ tasks[t].prompt[1] = [kind |-> "task", id |-> t]

\* A task that depends on two tasks of different layers is running.
C28_Witness ==
    \E t \in DOMAIN tasks :
        /\ tasks[t].status = "running"
        /\ Len(tasks[t].depends_on) = 2
        /\ layer_idx = 3
        /\ Len(tasks[t].prompt) = 4

\* C31: get_history_messages(num_runs = n) returns 2 * min(n, number of
\* runs) messages: for each of the last n runs, in order, a user message
\* with the run's task and an assistant message with the run's response,
\* shortened when it is long; for every n >= 0.
C31_HistoryIsLastRuns ==
    (history_done /\ history_args.num_runs # NoneRuns)
    => LET n == history_args.num_runs
           total == Len(history_runs)
           kept == IF n < total THEN n ELSE total
       IN /\ Len(history_messages) = 2 * kept
          /\ \A i \in 1..kept :
                LET run == history_runs[total - kept + i]
                IN /\ history_messages[2 * i - 1] = [role |-> "user", content |-> run.task]
                   /\ history_messages[2 * i].role = "assistant"
                   /\ history_messages[2 * i].content =
                         compressed_response(run.response, MaxResponseChars,
                                             history_args.smart_compress)

\* C32: maybe_summarize_messages on a history that exceeds neither the
\* user-turn threshold nor the token threshold returns the history unchanged
\* (same messages, same order) and makes no side LLM call.
C32_BelowThresholdsUnchanged ==
    LET user_turns == Cardinality({i \in 2..Len(sIn) : sIn[i].role = "user"})
    IN (sDone /\ user_turns <= SummarizeAfterRounds /\ estimate_tokens(sIn) <= TokenLimit)
       => (sOut = sIn /\ ~sCalled)

\* A history exactly at the user-turn threshold, within the token limit,
\* has been passed to an enabled manager.
C32_Witness ==
    /\ sDone
    /\ sEnabled
    /\ Cardinality({i \in 2..Len(sIn) : sIn[i].role = "user"}) = SummarizeAfterRounds
    /\ estimate_tokens(sIn) <= TokenLimit
    /\ Len(sIn) >= 4
    /\ sOut = sIn

\* C40: with summarize_after_rounds >= 2, when the result of a compression
\* has a token estimate at or below the limit, maybe_summarize_messages
\* applied to it returns it unchanged and issues no side LLM call.
C40_CompressedResultIsStable ==
    (sAgain.done /\ sCalled /\ estimate_tokens(sOut) <= TokenLimit)
    => /\ sAgain.messages = sOut
       /\ ~sAgain.called
       /\ sAgain.core_memory = sCore

\* A compression injected the core-memory message and the result was
\* passed to maybe_summarize_messages again.
C40_Witness ==
    /\ sAgain.done
    /\ sCalled
    /\ estimate_tokens(sOut) <= TokenLimit
    /\ Len(sOut) >= 4
    /\ sOut[2] = MemoryMessage(sCore)
    /\ sAgain.messages = sOut

\* C33: a session's updated_at never decreases over any sequence of add_run
\* and trim_session_runs operations on that session.
C33_UpdatedAtNeverDecreases == [][updated_at' >= updated_at]_vars

\* C34: among the events stored under one run_id the index is strictly
\* increasing in storage order, starting with RUN_START at index 0, also
\* when one logger is reused for successive runs and when a parent agent
\* and its spawned child log during the same period.
C34_IndexIncreasesWithinRun ==
    \A r \in DOMAIN run_events :
        LET events == run_events[r]
        IN /\ events # <<>> => (events[1].type = "RUN_START" /\ events[1].index = 0)
           /\ \A i \in 1..(Len(events) - 1) : events[i].index < events[i + 1].index

\* C35: for the same sequence of LLM outputs and tool results, run and
\* run_stream leave the same message history (the assistant message rebuilt
\* from the accumulated deltas equals the one run appends) and end for the
\* same reason.
C35_StreamEqualsRun ==
    (plain_run.pc = "done" /\ stream_run.pc = "done")
    => /\ stream_run.messages = plain_run.messages
       /\ stream_run.reason = plain_run.reason

\* C36: AgentTeam.run never runs more than max_steps members and, once it
\* has returned, reports at most max_steps steps, for every strategy.
C36_MaxStepsEnforced ==
    /\ agent_team.ran <= agent_team.max_steps
    /\ agent_team.pc = "returned" => agent_team.steps <= agent_team.max_steps

C38_AddRunToMissingSessionChangesNothing ==
    [][\A c \in DOMAIN callers :
          (/\ callers[c].pc = "idle"
           /\ c \in DOMAIN callers'
           /\ callers'[c].pc # "idle"
           /\ callers'[c].op \in {"add_run", "add_run_async"}
           /\ callers'[c].session_id \notin DOMAIN agentSessions)
          => /\ agentSessions' = agentSessions
             /\ storage_file' = storage_file
             /\ temp_file' = temp_file
             /\ callers'[c].pc = "returned"]_vars

\* Both cases have happened: add_run for "s2", which never existed, and
\* add_run for "s1" after its deletion (the file still holds the session as
\* it was loaded, because the delete's write failed).
C38_Witness ==
    \E c, d \in DOMAIN callers :
        /\ callers[c].op \in {"add_run", "add_run_async"}
        /\ callers[c].session_id = "s1"
        /\ callers[c].pc = "returned"
        /\ "s1" \notin DOMAIN agentSessions
        /\ "s1" \in DOMAIN storage_file.data
        /\ storage_file.data["s1"] = <<>>
        /\ callers[d].op \in {"add_run", "add_run_async"}
        /\ callers[d].session_id = "s2"
        /\ callers[d].pc = "returned"

\* C39: when run_with_dependencies has ended, no task is running; after a
\* successful run every task is completed; after a task failure every task
\* is completed, failed or skipped and the tasks of the earlier layers are
\* completed; after a graph error every task is still pending.
C39_NoTaskLeftRunning ==
    depPc \in {"returned", "raised"} =>
        /\ \A t \in DOMAIN tasks : tasks[t].status # "running"
        /\ depPc = "returned" =>
             /\ depResponse.success =>
                    \A t \in DOMAIN tasks : tasks[t].status = "completed"
             /\ depResponse.kind = "task failed" =>
                    /\ \A t \in DOMAIN tasks :
                          tasks[t].status \in {"completed", "failed", "skipped"}
                    /\ \A j \in 1..(layer_idx - 1) : \A t \in layers[j] :
                          tasks[t].status = "completed"
             /\ (~depResponse.success /\ depResponse.kind # "task failed") =>
                    \A t \in DOMAIN tasks : tasks[t].status = "pending"

\* A run that failed in its second layer or later, with a completed, a
\* failed and a skipped task.
C39_Witness ==
    /\ depPc = "returned"
    /\ depResponse.kind = "task failed"
    /\ layer_idx >= 2
    /\ \E t \in DOMAIN tasks : tasks[t].status = "skipped"
    /\ \E t \in DOMAIN tasks : tasks[t].status = "completed"
====
